---------------------------- MODULE Spec2Model ----------------------------
(***************************************************************************)
(* Model of the SOF heap allocator, src/src/lib/alloc.c.                   *)
(*                                                                         *)
(* The memory map (struct mm) is one record: four arrays of heaps          *)
(* (system, system_runtime, runtime, buffer), the heap_trace_updated flag  *)
(* and the spinlock.  Every function of alloc.c is an operator that takes  *)
(* the memory map (or one heap of it) and returns the memory map (or heap) *)
(* it leaves behind together with its return value.  C indices are kept    *)
(* 0-based (first_free, block numbers, core ids); a TLA+ sequence holds    *)
(* element i of a C array at position i + 1.                               *)
(*                                                                         *)
(* Requests are made with flags = 0: platform_shared_get() and             *)
(* platform_rfree_prepare() are platform hooks outside alloc.c and are the *)
(* identity when SOF_MEM_FLAG_SHARED is not set.  platform_shared_commit() *)
(* is a cache write-back and changes no allocator state.                   *)
(***************************************************************************)
EXTENDS Integers, Sequences, FiniteSets, TLC

VARIABLES
    memmap,         \* struct mm: the heaps, heap_trace_updated, lock
    live,           \* allocations handed out and not freed: {[ptr, bytes]}
    ret,            \* the last call: [op, ptr, old, err]
    panicked,       \* panic() was called: the DSP is halted
    debug_block_free, \* the build: CONFIG_DEBUG_BLOCK_FREE is set
    pc              \* per core: where the core stands inside a public call

vars == <<memmap, live, ret, panicked, debug_block_free, pc>>

-----------------------------------------------------------------------------
(* Bounds of the model. *)

\* at most this many allocations are live at once
MaxLive == 2

\* a heap is looked at after up to this many further small allocations
MaxFurther == 4

\* serial orders of up to this many System allocations are compared with
MaxSerial == 5

\* rfree(NULL) is repeated up to this many times
MaxNullFrees == 3

-----------------------------------------------------------------------------
(* C constants. *)

NULL == 0

(* Platform configuration (the platform's memory.h / memory.c tables). *)
PLATFORM_CORE_COUNT == 2
PLATFORM_MASTER_CORE_ID == 0
PLATFORM_HEAP_SYSTEM_RUNTIME == 2
PLATFORM_HEAP_RUNTIME == 1
PLATFORM_HEAP_BUFFER == 2
PLATFORM_DCACHE_ALIGN == 64

Cores == 0 .. (PLATFORM_CORE_COUNT - 1)

\* capability bits; a caps mask is the set of its bits, so that
\* (heap.caps & caps) == caps is caps \subseteq heap.caps
CapsMask(heapcaps, caps) == heapcaps \cap caps

SOF_MEM_ZONE_SYS == "SYS"
SOF_MEM_ZONE_SYS_RUNTIME == "SYS_RUNTIME"
SOF_MEM_ZONE_RUNTIME == "RUNTIME"
SOF_MEM_ZONE_BUFFER == "BUFFER"

-----------------------------------------------------------------------------
(* The static memory map the platform hands to init_heap(): per core a     *)
(* system heap and a system_runtime heap, one runtime heap, two buffer     *)
(* heaps.  The heaps follow each other in memory; every block base is a    *)
(* multiple of PLATFORM_DCACHE_ALIGN, and the buffer heaps start at an odd *)
(* multiple of 64, so that blocks aligned to 128 and blocks not aligned to *)
(* 128 both occur.                                                         *)

\* struct block_hdr of a free block
FreeHdr == [size |-> 0, used |-> 0, unaligned_ptr |-> NULL]

\* BLOCK_DEF(sz, cnt, hdr): a map of cnt free blocks of sz bytes; base is
\* filled in by init_heap_map()
BLOCK_DEF(sz, cnt) ==
    [block_size |-> sz, count |-> cnt, free_count |-> cnt, first_free |-> 0,
     base |-> 0, block |-> [i \in 1 .. cnt |-> FreeHdr]]

\* struct mm_heap
HeapDef(base, sz, caps, maps) ==
    [heap |-> base, size |-> sz, caps |-> caps, blocks |-> Len(maps),
     map |-> maps, info |-> [used |-> 0, free |-> sz]]

SystemHeapBase == 4096

StaticMemmap ==
    [system |-> << HeapDef(SystemHeapBase, 128, {"RAM"}, << >>),
                   HeapDef(SystemHeapBase + 128, 64, {"RAM"}, << >>) >>,
     system_runtime |->
                << HeapDef(SystemHeapBase + 192, 64, {"RAM"},
                           << BLOCK_DEF(64, 1) >>),
                   HeapDef(SystemHeapBase + 256, 64, {"RAM"},
                           << BLOCK_DEF(64, 1) >>) >>,
     runtime |-> << HeapDef(SystemHeapBase + 320, 256, {"RAM"},
                           << BLOCK_DEF(64, 2), BLOCK_DEF(128, 1) >>) >>,
     buffer |->  << HeapDef(SystemHeapBase + 576, 256, {"RAM"},
                           << BLOCK_DEF(64, 4) >>),
                   HeapDef(SystemHeapBase + 832, 768, {"RAM", "DMA"},
                           << BLOCK_DEF(64, 4), BLOCK_DEF(256, 2) >>) >>,
     heap_trace_updated |-> 0,
     lock |-> {}]

-----------------------------------------------------------------------------
(* init_heap_map(): map[0].base is the heap base, map[j].base follows      *)
(* map[j-1].                                                               *)

RECURSIVE MapBase(_, _)
MapBase(h, j) ==
    IF j = 1 THEN h.heap
    ELSE MapBase(h, j - 1) + h.map[j - 1].block_size * h.map[j - 1].count

init_heap_map(heaps) ==
    [i \in 1 .. Len(heaps) |->
        [heaps[i] EXCEPT !.map =
            [j \in 1 .. heaps[i].blocks |->
                [heaps[i].map[j] EXCEPT !.base = MapBase(heaps[i], j)]]]]

\* init_heap(): the three block-map heap arrays get their bases, the lock is
\* initialised (the lock is the set of cores holding it: empty when free)
init_heap(mm) ==
    [mm EXCEPT !.system_runtime = init_heap_map(mm.system_runtime),
               !.runtime = init_heap_map(mm.runtime),
               !.buffer = init_heap_map(mm.buffer),
               !.lock = {}]

-----------------------------------------------------------------------------
(* Results.  A function of alloc.c returns the state it leaves behind, its *)
(* return value, whether it emitted a trace_mem_error() and whether it     *)
(* called panic().                                                         *)

HeapRes(h, p, e, pn) == [heap |-> h, ptr |-> p, err |-> e, panic |-> pn]
MmRes(mm, p, e, pn) == [mm |-> mm, ptr |-> p, err |-> e, panic |-> pn]

-----------------------------------------------------------------------------
(* rmalloc_sys(): allocate from the system memory pool of `core'.          *)

\* rmalloc_sys() with the fault of not padding to the dcache line size
rmalloc_sys_unpadded(mm, caps, core, bytes) ==
    LET cpu_heap == mm.system[core + 1]
    IN  IF CapsMask(cpu_heap.caps, caps) # caps
        THEN MmRes(mm, NULL, FALSE, TRUE)
        ELSE IF bytes > cpu_heap.info.free
        THEN MmRes(mm, NULL, TRUE, TRUE)
        ELSE MmRes([mm EXCEPT !.system[core + 1].info =
                        [used |-> cpu_heap.info.used + bytes,
                         free |-> cpu_heap.info.free - bytes]],
                   cpu_heap.heap + cpu_heap.info.used, FALSE, FALSE)

rmalloc_sys(mm, caps, core, bytes) ==
    LET cpu_heap == mm.system[core + 1]
        alignment ==
            IF cpu_heap.info.used % PLATFORM_DCACHE_ALIGN # 0
            THEN PLATFORM_DCACHE_ALIGN -
                 (cpu_heap.info.used % PLATFORM_DCACHE_ALIGN)
            ELSE 0
    IN  IF CapsMask(cpu_heap.caps, caps) # caps
        THEN MmRes(mm, NULL, FALSE, TRUE)
        ELSE IF alignment + bytes > cpu_heap.info.free
        THEN MmRes(mm, NULL, TRUE, TRUE)
        ELSE MmRes([mm EXCEPT !.system[core + 1].info =
                        [used |-> cpu_heap.info.used + alignment + bytes,
                         free |-> cpu_heap.info.free - (alignment + bytes)]],
                   cpu_heap.heap + cpu_heap.info.used + alignment,
                   FALSE, FALSE)

-----------------------------------------------------------------------------
(* align_ptr(): the aligned pointer; the caller stores ptr as the header's *)
(* unaligned_ptr.                                                          *)

\* align_ptr() with the fault of returning ptr as it is
align_ptr_none(alignment, ptr) == ptr

align_ptr(alignment, ptr) ==
    LET mod_align ==
            IF alignment # 0 /\ ptr % alignment # 0
            THEN alignment - (ptr % alignment)
            ELSE 0
    IN  ptr + mod_align

-----------------------------------------------------------------------------
(* alloc_block(): allocate the single block at first_free of map `level'.  *)

\* the "find next free" loop: the first i in from .. count - 1 whose header
\* is unused, or keep (the loop leaves first_free alone when it finds none)
\* the loop with the fault of never moving on
FindNextFreeStay(map, i, keep) == keep

\* the loop with the fault of passing over the block that follows the one
\* just taken
RECURSIVE FindNextFreeSkip(_, _, _)
FindNextFreeSkip(map, i, keep) ==
    IF i + 2 >= map.count THEN keep
    ELSE IF map.block[i + 3].used = 0 THEN i + 2
    ELSE FindNextFreeSkip(map, i + 1, keep)

\* the loop with the fault of ending at count when it finds no unused header
RECURSIVE FindNextFreeSentinel(_, _, _)
FindNextFreeSentinel(map, i, keep) ==
    IF i >= map.count THEN map.count
    ELSE IF map.block[i + 1].used = 0 THEN i
    ELSE FindNextFreeSentinel(map, i + 1, keep)

RECURSIVE FindNextFree(_, _, _)
FindNextFree(map, i, keep) ==
    IF i >= map.count THEN keep
    ELSE IF map.block[i + 1].used = 0 THEN i
    ELSE FindNextFree(map, i + 1, keep)

alloc_block(heap, level, alignment) ==
    LET map == heap.map[level]
        ff == map.first_free
        raw == map.base + ff * map.block_size
        ptr == align_ptr(alignment, raw)
        map1 == [map EXCEPT !.free_count = map.free_count - 1,
                            !.block[ff + 1] =
                                [size |-> 1, used |-> 1,
                                 unaligned_ptr |-> raw]]
        map2 == [map1 EXCEPT !.first_free = FindNextFree(map1, ff, ff)]
    IN  HeapRes([heap EXCEPT !.map[level] = map2,
                             !.info.used = heap.info.used + map.block_size,
                             !.info.free = heap.info.free - map.block_size],
                ptr, FALSE, FALSE)

-----------------------------------------------------------------------------
(* alloc_cont_blocks(): allocate a run of consecutive blocks of one map.   *)

\* the scan for enough consecutive blocks: [start, remaining] when the loop
\* ends
\* the scan with the fault of not starting over at a used block
RECURSIVE ContScanNoReset(_, _, _, _, _)
ContScanNoReset(map, current, remaining, start, count) ==
    IF ~(current < map.count /\ remaining < count)
    THEN [start |-> start, remaining |-> remaining]
    ELSE IF map.block[current + 1].used # 0
    THEN ContScanNoReset(map, current + 1, remaining, start, count)
    ELSE ContScanNoReset(map, current + 1, remaining + 1,
                         IF remaining = 0 THEN current ELSE start, count)

RECURSIVE ContScan(_, _, _, _, _)
ContScan(map, current, remaining, start, count) ==
    IF ~(current < map.count /\ remaining < count)
    THEN [start |-> start, remaining |-> remaining]
    ELSE IF map.block[current + 1].used # 0
    THEN ContScan(map, current + 1, 0, start, count)
    ELSE ContScan(map, current + 1, remaining + 1,
                  IF remaining = 0 THEN current ELSE start, count)

\* ContCount with the fault of not counting the block that is partly needed
ContCountFloor(map, bytes) == bytes \div map.block_size

\* the number of blocks a request of `bytes' needs in `map'
ContCount(map, bytes) ==
    (bytes \div map.block_size) +
    (IF bytes % map.block_size # 0 THEN 1 ELSE 0)

\* "find first available free block": from i upwards, the first unused
\* header, or count
RECURSIVE FirstAvailable(_, _)
FirstAvailable(map, i) ==
    IF i >= map.count THEN i
    ELSE IF map.block[i + 1].used = 0 THEN i
    ELSE FirstAvailable(map, i + 1)

\* alloc_cont_blocks() with the fault of moving the heap counters before it
\* knows that the run was found
alloc_cont_blocks_early(heap, level, bytes, alignment) ==
    LET map == heap.map[level]
        count == ContCount(map, bytes)
        scan == ContScan(map, map.first_free, 0, map.first_free, count)
        moved == [heap EXCEPT
                    !.info.used = heap.info.used + count * map.block_size,
                    !.info.free = heap.info.free - count * map.block_size]
        start == scan.start
        unaligned_ptr == map.base + start * map.block_size
        map1 == [map EXCEPT
                   !.free_count = map.free_count - count,
                   !.first_free =
                       IF map.first_free = start
                       THEN FirstAvailable(map, map.first_free + count)
                       ELSE map.first_free,
                   !.block = [i \in 1 .. map.count |->
                       IF i - 1 >= start /\ i - 1 < start + count
                       THEN [size |-> IF i - 1 = start THEN count
                                      ELSE map.block[i].size,
                             used |-> 1,
                             unaligned_ptr |-> unaligned_ptr]
                       ELSE map.block[i]]]
    IN  IF count > map.count \/ scan.remaining < count
        THEN HeapRes(moved, NULL, TRUE, FALSE)
        ELSE HeapRes([moved EXCEPT !.map[level] = map1],
                     align_ptr(alignment, unaligned_ptr), FALSE, FALSE)

alloc_cont_blocks(heap, level, bytes, alignment) ==
    LET map == heap.map[level]
        count == ContCount(map, bytes)
        scan == ContScan(map, map.first_free, 0, map.first_free, count)
        start == scan.start
        unaligned_ptr == map.base + start * map.block_size
        ptr == align_ptr(alignment, unaligned_ptr)
        new_first_free ==
            IF map.first_free = start
            THEN FirstAvailable(map, map.first_free + count)
            ELSE map.first_free
        map1 == [map EXCEPT
                   !.free_count = map.free_count - count,
                   !.first_free = new_first_free,
                   !.block = [i \in 1 .. map.count |->
                       IF i - 1 >= start /\ i - 1 < start + count
                       THEN [size |-> IF i - 1 = start THEN count
                                      ELSE map.block[i].size,
                             used |-> 1,
                             unaligned_ptr |-> unaligned_ptr]
                       ELSE map.block[i]]]
    IN  IF count > map.count \/ scan.remaining < count
        THEN HeapRes(heap, NULL, TRUE, FALSE)
        ELSE HeapRes([heap EXCEPT
                        !.map[level] = map1,
                        !.info.used = heap.info.used + count * map.block_size,
                        !.info.free = heap.info.free - count * map.block_size],
                     ptr, FALSE, FALSE)

-----------------------------------------------------------------------------
(* Heap lookup.  A struct mm_heap * is the array it points into and the    *)
(* 0-based index in it; NoHeap is the NULL heap pointer.                   *)

HeapRef(a, i) == [arr |-> a, idx |-> i]
NoHeap == HeapRef("none", 0)
HeapAt(mm, ref) == mm[ref.arr][ref.idx + 1]

InHeap(h, ptr) == ptr >= h.heap /\ ptr < h.heap + h.size

\* the first i in from .. n - 1 with heaps[i] holding ptr, or -1
RECURSIVE FirstHeapWithPtr(_, _, _, _)
FirstHeapWithPtr(heaps, i, n, ptr) ==
    IF i >= n THEN -1
    ELSE IF InHeap(heaps[i + 1], ptr) THEN i
    ELSE FirstHeapWithPtr(heaps, i + 1, n, ptr)

\* get_heap_from_ptr() with the fault of looking into the system_runtime
\* heaps of all cores
get_heap_from_ptr_all_cores(mm, core, ptr) ==
    LET sr == FirstHeapWithPtr(mm.system_runtime, 0,
                               PLATFORM_HEAP_SYSTEM_RUNTIME, ptr)
        rt == FirstHeapWithPtr(mm.runtime, 0, PLATFORM_HEAP_RUNTIME, ptr)
        bf == FirstHeapWithPtr(mm.buffer, 0, PLATFORM_HEAP_BUFFER, ptr)
    IN  IF sr # -1 THEN HeapRef("system_runtime", sr)
        ELSE IF rt # -1 THEN HeapRef("runtime", rt)
        ELSE IF bf # -1 THEN HeapRef("buffer", bf)
        ELSE NoHeap

\* get_heap_from_ptr(): the system_runtime heap of the calling core, then the
\* runtime heaps, then the buffer heaps
get_heap_from_ptr(mm, core, ptr) ==
    LET rt == FirstHeapWithPtr(mm.runtime, 0, PLATFORM_HEAP_RUNTIME, ptr)
        bf == FirstHeapWithPtr(mm.buffer, 0, PLATFORM_HEAP_BUFFER, ptr)
    IN  IF InHeap(mm.system_runtime[core + 1], ptr)
        THEN HeapRef("system_runtime", core)
        ELSE IF rt # -1 THEN HeapRef("runtime", rt)
        ELSE IF bf # -1 THEN HeapRef("buffer", bf)
        ELSE NoHeap

\* get_heap_from_caps(heap, count, caps) with heap = &heaps[first]: the index
\* of the first of the count heaps from first on that supports caps, or -1
\* get_heap_from_caps() with the fault of not looking at the caps
get_heap_any_caps(heaps, first, count, caps) ==
    IF count <= 0 THEN -1 ELSE first

RECURSIVE get_heap_from_caps(_, _, _, _)
get_heap_from_caps(heaps, first, count, caps) ==
    IF count <= 0 THEN -1
    ELSE IF CapsMask(heaps[first + 1].caps, caps) = caps THEN first
    ELSE get_heap_from_caps(heaps, first + 1, count - 1, caps)

-----------------------------------------------------------------------------
(* get_ptr_from_heap(): a single block from the first map of the heap that *)
(* is big enough and has a free block.                                     *)

IsPowerOfTwoOrZero(alignment) ==
    alignment = 0 \/ \E k \in 0 .. 12 : alignment = 2 ^ k

\* temp_bytes of one loop round: bytes, plus alignment when the first free
\* block of the map is not aligned
TempBytes(map, bytes, alignment) ==
    IF alignment # 0 /\
       (map.base + map.block_size * map.first_free) % alignment # 0
    THEN bytes + alignment
    ELSE bytes

\* the loop with the fault of not looking at free_count
RECURSIVE PtrFromHeapLoopAnyCount(_, _, _, _)
PtrFromHeapLoopAnyCount(heap, i, bytes, alignment) ==
    IF i >= heap.blocks THEN HeapRes(heap, NULL, FALSE, FALSE)
    ELSE LET map == heap.map[i + 1]
         IN  IF map.block_size < TempBytes(map, bytes, alignment)
             THEN PtrFromHeapLoopAnyCount(heap, i + 1, bytes, alignment)
             ELSE alloc_block(heap, i + 1, alignment)

RECURSIVE PtrFromHeapLoop(_, _, _, _)
PtrFromHeapLoop(heap, i, bytes, alignment) ==
    IF i >= heap.blocks THEN HeapRes(heap, NULL, FALSE, FALSE)
    ELSE LET map == heap.map[i + 1]
         IN  IF map.block_size < TempBytes(map, bytes, alignment)
             THEN PtrFromHeapLoop(heap, i + 1, bytes, alignment)
             ELSE IF map.free_count = 0
             THEN PtrFromHeapLoop(heap, i + 1, bytes, alignment)
             ELSE alloc_block(heap, i + 1, alignment)

get_ptr_from_heap(heap, caps, bytes, alignment) ==
    IF ~IsPowerOfTwoOrZero(alignment)
    THEN HeapRes(heap, NULL, FALSE, TRUE)
    ELSE PtrFromHeapLoop(heap, 0, bytes, alignment)

-----------------------------------------------------------------------------
(* free_block(): free the block(s) ptr belongs to.                         *)

\* the first map i of the heap with ptr < base + block_size * count, or
\* heap.blocks
RECURSIVE FindMap(_, _, _)
FindMap(heap, i, ptr) ==
    IF i >= heap.blocks THEN i
    ELSE IF ptr < heap.map[i + 1].base +
                  heap.map[i + 1].block_size * heap.map[i + 1].count
    THEN i
    ELSE FindMap(heap, i + 1, ptr)

\* validate_memory(ptr, size) of a CONFIG_DEBUG_BLOCK_FREE build: the trace
\* is an error ("double free detected") when no word of the region differs
\* from the free pattern, which is so for an empty region; intact says
\* whether the words of a non-empty region all hold the pattern
validate_memory(size, intact) ==
    IF size \div 4 = 0 THEN TRUE ELSE intact

FreeRes(mm, e, pn, f) == [mm |-> mm, err |-> e, panic |-> pn, freed |-> f]

\* the block of map block_map that the address ptr lies in
BlockIndex(block_map, ptr) == (ptr - block_map.base) \div block_map.block_size

\* "is block an unaligned ptr": the pointer free_block() goes on with, the
\* unaligned_ptr of the header ptr lies in when that is set and differs
UnalignedPtr(block_map, ptr) ==
    LET hdr == block_map.block[BlockIndex(block_map, ptr) + 1]
    IN  IF hdr.unaligned_ptr # ptr /\ hdr.unaligned_ptr # NULL
        THEN hdr.unaligned_ptr
        ELSE ptr

\* the release loop with the fault of counting one block however many it
\* resets
ReleaseBlocksCountOne(map, block, used_blocks) ==
    [map EXCEPT
       !.block = [i \in 1 .. map.count |->
                     IF i - 1 >= block /\ i - 1 < used_blocks
                     THEN FreeHdr ELSE map.block[i]],
       !.free_count = map.free_count + 1]

\* the release loop with the fault of leaving unaligned_ptr in the headers
ReleaseBlocksKeepPtr(map, block, used_blocks) ==
    [map EXCEPT
       !.block = [i \in 1 .. map.count |->
                     IF i - 1 >= block /\ i - 1 < used_blocks
                     THEN [map.block[i] EXCEPT !.size = 0, !.used = 0]
                     ELSE map.block[i]],
       !.free_count = map.free_count + (used_blocks - block)]

\* the release loop: headers block .. used_blocks - 1 are reset
ReleaseBlocks(map, block, used_blocks) ==
    [map EXCEPT
       !.block = [i \in 1 .. map.count |->
                     IF i - 1 >= block /\ i - 1 < used_blocks
                     THEN FreeHdr ELSE map.block[i]],
       !.free_count = map.free_count + (used_blocks - block)]

\* FreeInMap with the fault of not looking at heap_is_full
FreeInMapNotFull(block_map, block) ==
    [ReleaseBlocks(block_map, block,
                   block + block_map.block[block + 1].size)
     EXCEPT !.first_free =
        IF block < block_map.first_free
        THEN block
        ELSE block_map.first_free]

\* FreeInMap with the fault of leaving first_free alone
FreeInMapKeepFirst(block_map, block) ==
    ReleaseBlocks(block_map, block, block + block_map.block[block + 1].size)

\* the map after the release of the allocation that starts at block:
\* heap_is_full is taken before the release loop, first_free is set after
FreeInMap(block_map, block) ==
    [ReleaseBlocks(block_map, block,
                   block + block_map.block[block + 1].size)
     EXCEPT !.first_free =
        IF block < block_map.first_free \/ block_map.free_count = 0
        THEN block
        ELSE block_map.first_free]

\* FreedBytes with the fault of counting one block
FreedBytesOneBlock(block_map, block) == block_map.block_size

\* block_size * (used_blocks - block) of the allocation that starts at block
FreedBytes(block_map, block) ==
    block_map.block_size * block_map.block[block + 1].size

\* the heap after the release of the allocation that starts at block of
\* map i
FreeInHeap(heap, i, block) ==
    [heap EXCEPT
       !.map[i + 1] = FreeInMap(heap.map[i + 1], block),
       !.info.used = heap.info.used - FreedBytes(heap.map[i + 1], block),
       !.info.free = heap.info.free + FreedBytes(heap.map[i + 1], block)]

\* FreeBlockAt with the fault of not checking that ptr is the base of a block
FreeBlockAtNoPanic(mm, ref, heap, i, ptr, debug, intact) ==
    FreeRes([mm EXCEPT ![ref.arr][ref.idx + 1] =
                 FreeInHeap(heap, i, BlockIndex(heap.map[i + 1], ptr))],
            debug /\ validate_memory(
                FreedBytes(heap.map[i + 1],
                           BlockIndex(heap.map[i + 1], ptr)), intact),
            FALSE, TRUE)

\* free_block() once its map i is found and ptr is replaced by its header's
\* unaligned_ptr: panic() unless ptr is the base of a block
FreeBlockAt(mm, ref, heap, i, ptr, debug, intact) ==
    IF heap.map[i + 1].base +
       heap.map[i + 1].block_size * BlockIndex(heap.map[i + 1], ptr) # ptr
    THEN FreeRes(mm, FALSE, TRUE, FALSE)
    ELSE FreeRes([mm EXCEPT ![ref.arr][ref.idx + 1] =
                      FreeInHeap(heap, i, BlockIndex(heap.map[i + 1], ptr))],
                 debug /\ validate_memory(
                     FreedBytes(heap.map[i + 1],
                                BlockIndex(heap.map[i + 1], ptr)), intact),
                 FALSE, TRUE)

\* free_block() once the heap of ptr is found: the map of ptr is looked for
FreeBlockIn(mm, ref, heap, i, ptr, debug, intact) ==
    IF i = heap.blocks THEN FreeRes(mm, TRUE, FALSE, FALSE)
    ELSE FreeBlockAt(mm, ref, heap, i, UnalignedPtr(heap.map[i + 1], ptr),
                     debug, intact)

free_block(mm, core, ptr, debug, intact) ==
    LET ref == get_heap_from_ptr(mm, core, ptr)
    IN  IF ref = NoHeap THEN FreeRes(mm, TRUE, FALSE, FALSE)
        ELSE FreeBlockIn(mm, ref, HeapAt(mm, ref),
                         FindMap(HeapAt(mm, ref), 0, ptr), ptr, debug, intact)

-----------------------------------------------------------------------------
(* The zone allocators behind rmalloc().                                   *)

\* put heap h back at mm.arr[idx]
WithHeap(mm, arr, idx, h) == [mm EXCEPT ![arr][idx + 1] = h]

rmalloc_sys_runtime(mm, caps, core, bytes) ==
    LET cpu_heap == mm.system_runtime[core + 1]
        r == get_ptr_from_heap(cpu_heap, caps, bytes, PLATFORM_DCACHE_ALIGN)
    IN  IF CapsMask(cpu_heap.caps, caps) # caps
        THEN MmRes(mm, NULL, FALSE, TRUE)
        ELSE MmRes(WithHeap(mm, "system_runtime", core, r.heap),
                   r.ptr, r.err, r.panic)

\* rmalloc_runtime() with the fault of going on to the buffer heaps when
\* the runtime heap has no block for the request
rmalloc_runtime_fallback(mm, caps, bytes) ==
    LET rt == get_heap_from_caps(mm.runtime, 0, PLATFORM_HEAP_RUNTIME, caps)
        bf == get_heap_from_caps(mm.buffer, 0, PLATFORM_HEAP_BUFFER, caps)
        r1 == get_ptr_from_heap(mm.runtime[rt + 1], caps, bytes,
                                PLATFORM_DCACHE_ALIGN)
        r2 == get_ptr_from_heap(mm.buffer[bf + 1], caps, bytes,
                                PLATFORM_DCACHE_ALIGN)
    IN  IF rt # -1 /\ r1.ptr # NULL
        THEN MmRes(WithHeap(mm, "runtime", rt, r1.heap), r1.ptr, r1.err,
                   r1.panic)
        ELSE IF bf # -1
        THEN MmRes(WithHeap(mm, "buffer", bf, r2.heap), r2.ptr, r2.err,
                   r2.panic)
        ELSE MmRes(mm, NULL, TRUE, FALSE)

rmalloc_runtime(mm, caps, bytes) ==
    LET rt == get_heap_from_caps(mm.runtime, 0, PLATFORM_HEAP_RUNTIME, caps)
        bf == get_heap_from_caps(mm.buffer, 0, PLATFORM_HEAP_BUFFER, caps)
        ref == IF rt # -1 THEN HeapRef("runtime", rt)
               ELSE IF bf # -1 THEN HeapRef("buffer", bf)
               ELSE NoHeap
        r == get_ptr_from_heap(HeapAt(mm, ref), caps, bytes,
                               PLATFORM_DCACHE_ALIGN)
    IN  IF ref = NoHeap
        THEN MmRes(mm, NULL, TRUE, FALSE)
        ELSE MmRes(WithHeap(mm, ref.arr, ref.idx, r.heap),
                   r.ptr, r.err, r.panic)

\* _malloc_unlocked(): core is cpu_get_id() of the caller
_malloc_unlocked(mm, core, zone, caps, bytes) ==
    LET r == CASE zone = SOF_MEM_ZONE_SYS ->
                    rmalloc_sys(mm, caps, core, bytes)
               [] zone = SOF_MEM_ZONE_SYS_RUNTIME ->
                    rmalloc_sys_runtime(mm, caps, core, bytes)
               [] zone = SOF_MEM_ZONE_RUNTIME ->
                    rmalloc_runtime(mm, caps, bytes)
               [] OTHER -> MmRes(mm, NULL, TRUE, TRUE)
    IN  IF r.panic THEN r
        ELSE [r EXCEPT !.mm.heap_trace_updated = 1]

-----------------------------------------------------------------------------
(* alloc_heap_buffer(): a buffer from one heap, as a single block or as a   *)
(* run of blocks.  alignment is not 0 (the code takes a remainder by it).  *)

\* SingleBlockMap with the fault of not enlarging the request for the
\* alignment
RECURSIVE SingleBlockMapUnadjusted(_, _, _, _)
SingleBlockMapUnadjusted(heap, i, bytes, alignment) ==
    IF i >= heap.blocks THEN i
    ELSE IF heap.map[i + 1].block_size >= bytes /\
            heap.map[i + 1].free_count # 0
    THEN i
    ELSE SingleBlockMapUnadjusted(heap, i + 1, bytes, alignment)

\* "will request fit in single block": the first map, smallest block size
\* first, whose blocks hold the request and that has a free block; or
\* heap.blocks
RECURSIVE SingleBlockMap(_, _, _, _)
SingleBlockMap(heap, i, bytes, alignment) ==
    IF i >= heap.blocks THEN i
    ELSE LET map == heap.map[i + 1]
             temp_bytes ==
                 IF (map.base + map.block_size * map.first_free)
                    % alignment # 0
                 THEN bytes + alignment ELSE bytes
         IN  IF map.block_size >= temp_bytes /\ map.free_count # 0
             THEN i
             ELSE SingleBlockMap(heap, i + 1, bytes, alignment)

\* "request spans > 1 block": maps from the largest block size down; bytes
\* is the request already enlarged by the alignment; err collects the
\* trace errors of the attempts that failed
RECURSIVE ContBlocksLoop(_, _, _, _, _)
ContBlocksLoop(heap, i, bytes, alignment, err) ==
    IF i < 0 THEN HeapRes(heap, NULL, err, FALSE)
    ELSE LET map == heap.map[i + 1]
             r == alloc_cont_blocks(heap, i + 1, bytes, alignment)
         IN  IF heap.size >= bytes /\ map.block_size < bytes
             THEN IF r.ptr # NULL
                  THEN [r EXCEPT !.err = err \/ r.err]
                  ELSE ContBlocksLoop(r.heap, i - 1, bytes, alignment,
                                      err \/ r.err)
             ELSE ContBlocksLoop(heap, i - 1, bytes, alignment, err)

alloc_heap_buffer(heap, caps, bytes, alignment) ==
    LET i == SingleBlockMap(heap, 0, bytes, alignment)
    IN  IF ~IsPowerOfTwoOrZero(alignment)
        THEN HeapRes(heap, NULL, FALSE, TRUE)
        ELSE IF i < heap.blocks
        THEN alloc_block(heap, i + 1, alignment)
        ELSE ContBlocksLoop(heap, heap.blocks - 1, bytes + alignment,
                            alignment, FALSE)

\* BallocLoop with the fault of giving up after the first heap that fails
BallocLoopOnce(mm, first, caps, bytes, alignment, err) ==
    IF first >= PLATFORM_HEAP_BUFFER THEN MmRes(mm, NULL, err, FALSE)
    ELSE LET h == get_heap_from_caps(mm.buffer, first,
                                     PLATFORM_HEAP_BUFFER - first, caps)
             r == alloc_heap_buffer(mm.buffer[h + 1], caps, bytes, alignment)
         IN  IF h = -1 THEN MmRes(mm, NULL, err, FALSE)
             ELSE MmRes(WithHeap(mm, "buffer", h, r.heap), r.ptr,
                        err \/ r.err, r.panic)

\* _balloc_unlocked(): the buffer heaps that support caps, one after the
\* other from buffer[first] on, until one serves the request
RECURSIVE BallocLoop(_, _, _, _, _, _)
BallocLoop(mm, first, caps, bytes, alignment, err) ==
    IF first >= PLATFORM_HEAP_BUFFER THEN MmRes(mm, NULL, err, FALSE)
    ELSE LET h == get_heap_from_caps(mm.buffer, first,
                                     PLATFORM_HEAP_BUFFER - first, caps)
             r == alloc_heap_buffer(mm.buffer[h + 1], caps, bytes, alignment)
             mm1 == WithHeap(mm, "buffer", h, r.heap)
         IN  IF h = -1 THEN MmRes(mm, NULL, err, FALSE)
             ELSE IF r.ptr # NULL \/ r.panic
             THEN MmRes(mm1, r.ptr, err \/ r.err, r.panic)
             ELSE BallocLoop(mm1, h + 1, caps, bytes, alignment, err \/ r.err)

\* the indices of the buffer heaps that the loop of _balloc_unlocked() hands
\* to alloc_heap_buffer(), in the order of the calls
RECURSIVE BallocTried(_, _, _, _, _)
BallocTried(mm, first, caps, bytes, alignment) ==
    IF first >= PLATFORM_HEAP_BUFFER THEN << >>
    ELSE LET h == get_heap_from_caps(mm.buffer, first,
                                     PLATFORM_HEAP_BUFFER - first, caps)
             r == alloc_heap_buffer(mm.buffer[h + 1], caps, bytes, alignment)
         IN  IF h = -1 THEN << >>
             ELSE IF r.ptr # NULL \/ r.panic THEN << h >>
             ELSE << h >> \o BallocTried(WithHeap(mm, "buffer", h, r.heap),
                                         h + 1, caps, bytes, alignment)

_balloc_unlocked(mm, caps, bytes, alignment) ==
    BallocLoop(mm, 0, caps, bytes, alignment, FALSE)

-----------------------------------------------------------------------------
(* _rfree_unlocked(): core is cpu_get_id() of the caller.                  *)

\* _rfree_unlocked() with the fault of not returning at once for NULL
_rfree_unlocked_null(mm, core, ptr, debug, intact) ==
    LET cpu_heap == mm.system[core + 1]
        r == free_block(mm, core, ptr, debug, intact)
    IN  IF ptr >= cpu_heap.heap /\ ptr < cpu_heap.heap + cpu_heap.size
        THEN FreeRes(mm, TRUE, TRUE, FALSE)
        ELSE IF r.panic THEN r
        ELSE [r EXCEPT !.mm.heap_trace_updated = 1]

\* _rfree_unlocked() with the fault of not looking at the system heap
_rfree_unlocked_any(mm, core, ptr, debug, intact) ==
    LET r == free_block(mm, core, ptr, debug, intact)
    IN  IF ptr = NULL THEN FreeRes(mm, FALSE, FALSE, FALSE)
        ELSE IF r.panic THEN r
        ELSE [r EXCEPT !.mm.heap_trace_updated = 1]

_rfree_unlocked(mm, core, ptr, debug, intact) ==
    LET cpu_heap == mm.system[core + 1]
        r == free_block(mm, core, ptr, debug, intact)
    IN  IF ptr = NULL THEN FreeRes(mm, FALSE, FALSE, FALSE)
        ELSE IF ptr >= cpu_heap.heap /\ ptr < cpu_heap.heap + cpu_heap.size
        THEN FreeRes(mm, TRUE, TRUE, FALSE)
        ELSE IF r.panic THEN r
        ELSE [r EXCEPT !.mm.heap_trace_updated = 1]

-----------------------------------------------------------------------------
(* The public entry points.  core is the calling core; spin_lock_irq()     *)
(* puts the caller into the lock, spin_unlock_irq() empties it; a panic()  *)
(* inside never returns, so the lock stays taken.                          *)

\* spin_lock_irq() with the fault of not taking the lock
spin_lock_none(mm, core) == mm

spin_lock_irq(mm, core) == [mm EXCEPT !.lock = {core}]
spin_unlock_irq(mm) == [mm EXCEPT !.lock = {}]

\* the result r of the locked body, with the lock released if it returned
Release(r) == IF r.panic THEN r ELSE [r EXCEPT !.mm = spin_unlock_irq(r.mm)]

rmalloc(mm, core, zone, caps, bytes) ==
    Release(_malloc_unlocked(spin_lock_irq(mm, core), core, zone, caps, bytes))

\* rzalloc(): rmalloc(), then bzero() of the memory returned, which changes
\* no allocator state
rzalloc(mm, core, zone, caps, bytes) ==
    rmalloc(mm, core, zone, caps, bytes)

\* rzalloc_core_sys(core, bytes), called on core `caller'
rzalloc_core_sys(mm, caller, core, bytes) ==
    Release(rmalloc_sys(spin_lock_irq(mm, caller), {}, core, bytes))

rballoc_align(mm, core, caps, bytes, alignment) ==
    Release(_balloc_unlocked(spin_lock_irq(mm, core), caps, bytes, alignment))

rfree(mm, core, ptr, debug, intact) ==
    Release(_rfree_unlocked(spin_lock_irq(mm, core), core, ptr, debug, intact))

ReallocRes(mm, p, e, pn, f) ==
    [mm |-> mm, ptr |-> p, err |-> e, panic |-> pn, freed |-> f]

\* the tail with the fault of freeing the old pointer whatever the allocation
\* returned
ReallocTailAlways(new, core, ptr, debug, intact) ==
    LET f == _rfree_unlocked(new.mm, core, ptr, debug, intact)
    IN  IF new.panic
        THEN ReallocRes(new.mm, new.ptr, new.err, new.panic, FALSE)
        ELSE ReallocRes(f.mm, new.ptr, new.err \/ f.err, f.panic, f.freed)

\* the tail with the fault of never freeing the old pointer
ReallocTailNever(new, core, ptr, debug, intact) ==
    ReallocRes(new.mm, new.ptr, new.err, new.panic, FALSE)

\* the common tail of rrealloc() and rbrealloc_align(): new is the result of
\* the allocation; the old pointer is freed only if that one succeeded
ReallocTail(new, core, ptr, debug, intact) ==
    LET f == _rfree_unlocked(new.mm, core, ptr, debug, intact)
    IN  IF new.panic \/ new.ptr = NULL
        THEN ReallocRes(new.mm, new.ptr, new.err, new.panic, FALSE)
        ELSE ReallocRes(f.mm, new.ptr, new.err \/ f.err, f.panic, f.freed)

rrealloc(mm, core, ptr, zone, caps, bytes, debug, intact) ==
    IF bytes = 0 THEN ReallocRes(mm, NULL, FALSE, FALSE, FALSE)
    ELSE Release(ReallocTail(
             _malloc_unlocked(spin_lock_irq(mm, core), core, zone, caps,
                              bytes),
             core, ptr, debug, intact))

rbrealloc_align(mm, core, ptr, caps, bytes, alignment, debug, intact) ==
    IF bytes = 0 THEN ReallocRes(mm, NULL, FALSE, FALSE, FALSE)
    ELSE Release(ReallocTail(
             _balloc_unlocked(spin_lock_irq(mm, core), caps, bytes,
                              alignment),
             core, ptr, debug, intact))

\* free_heap(): takes no lock
free_heap(mm, core, zone) ==
    IF core = PLATFORM_MASTER_CORE_ID \/ zone # SOF_MEM_ZONE_SYS
    THEN MmRes(mm, NULL, TRUE, TRUE)
    ELSE MmRes([mm EXCEPT !.system[core + 1].info =
                    [used |-> 0, free |-> mm.system[core + 1].size]],
               NULL, FALSE, FALSE)

-----------------------------------------------------------------------------
(* The inputs the calls are made with.                                     *)

Zones == {SOF_MEM_ZONE_SYS, SOF_MEM_ZONE_SYS_RUNTIME, SOF_MEM_ZONE_RUNTIME,
          SOF_MEM_ZONE_BUFFER}
\* "HP" is a capability no heap of the memory map has
CapsSet == {{"RAM"}, {"DMA"}, {"HP"}}
MallocBytes == {0, 40}
BufferBytes == {40, 100, 200}
\* powers of two, and 24, which is none
Alignments == {8, 128, 256, 24}
\* what the realloc calls are made with
ReallocZones == {SOF_MEM_ZONE_SYS_RUNTIME, SOF_MEM_ZONE_RUNTIME}
ReallocCaps == {{"RAM"}, {"DMA"}}
ReallocBufferBytes == {0, 40, 200}
ReallocAlignments == {8, 128}

\* whether the memory being freed still holds the free pattern: read only
\* by the validate_memory() of a CONFIG_DEBUG_BLOCK_FREE build
Contents == IF debug_block_free THEN BOOLEAN ELSE {FALSE}

LivePtrs == {a.ptr : a \in live}
\* an address inside the system heap of core c
SystemPtr(c) == memmap.system[c + 1].heap + 8
\* the core that is not the master core
SlaveCore == CHOOSE c \in Cores : c # PLATFORM_MASTER_CORE_ID
\* an address above every heap
ForeignPtr ==
    memmap.buffer[PLATFORM_HEAP_BUFFER].heap +
    memmap.buffer[PLATFORM_HEAP_BUFFER].size + 64
\* what rfree() is called with: NULL, a live allocation, the pointer the
\* last call freed (a double free), an address in a system heap, a foreign
\* address
FreePtrs ==
    {NULL, ret.old, ForeignPtr, SystemPtr(SlaveCore)} \cup LivePtrs

\* a core that is in no call of the allocator
Idle == [at |-> "idle"]

Ret(op, ptr, old, err) == [op |-> op, ptr |-> ptr, old |-> old, err |-> err]

-----------------------------------------------------------------------------
(* The specification in which every public call is one step (the calls     *)
(* that take the lock exclude each other).                                 *)

Init ==
    /\ memmap = init_heap(StaticMemmap)
    /\ live = {}
    /\ ret = Ret("init_heap", NULL, NULL, FALSE)
    /\ panicked = FALSE
    /\ debug_block_free = FALSE
    /\ pc = [c \in Cores |-> Idle]

\* an allocation that returned ptr is live
Allocated(r, bytes) ==
    IF r.ptr # NULL
    THEN live \cup {[ptr |-> r.ptr, bytes |-> bytes]}
    ELSE live

\* free_heap() of core ends the life of what its system heap handed out
HeapFreed(l, mm, core, r) ==
    IF r.panic THEN l
    ELSE {a \in l : ~InHeap(mm.system[core + 1], a.ptr)}

\* the allocation at ptr is no longer live once free_block() released it
Released(l, ptr, freed) ==
    IF freed THEN {a \in l : a.ptr # ptr} ELSE l

Rmalloc(core, zone, caps, bytes) ==
    LET r == rmalloc(memmap, core, zone, caps, bytes)
    IN  /\ ~panicked
        /\ Cardinality(live) < MaxLive
        /\ memmap' = r.mm
        /\ live' = Allocated(r, bytes)
        /\ ret' = Ret("rmalloc", r.ptr, NULL, r.err)
        /\ panicked' = r.panic
        /\ UNCHANGED <<debug_block_free, pc>>

Rzalloc(core, zone, caps, bytes) ==
    LET r == rzalloc(memmap, core, zone, caps, bytes)
    IN  /\ ~panicked
        /\ Cardinality(live) < MaxLive
        /\ memmap' = r.mm
        /\ live' = Allocated(r, bytes)
        /\ ret' = Ret("rmalloc", r.ptr, NULL, r.err)
        /\ panicked' = r.panic
        /\ UNCHANGED <<debug_block_free, pc>>

RzallocCoreSys(caller, core, bytes) ==
    LET r == rzalloc_core_sys(memmap, caller, core, bytes)
    IN  /\ ~panicked
        /\ Cardinality(live) < MaxLive
        /\ memmap' = r.mm
        /\ live' = Allocated(r, bytes)
        /\ ret' = Ret("rzalloc_core_sys", r.ptr, NULL, r.err)
        /\ panicked' = r.panic
        /\ UNCHANGED <<debug_block_free, pc>>

RballocAlign(core, caps, bytes, alignment) ==
    LET r == rballoc_align(memmap, core, caps, bytes, alignment)
    IN  /\ ~panicked
        /\ Cardinality(live) < MaxLive
        /\ memmap' = r.mm
        /\ live' = Allocated(r, bytes)
        /\ ret' = Ret("rballoc_align", r.ptr, NULL, r.err)
        /\ panicked' = r.panic
        /\ UNCHANGED <<debug_block_free, pc>>

Rfree(core, ptr, intact) ==
    LET r == rfree(memmap, core, ptr, debug_block_free, intact)
    IN  /\ ~panicked
        /\ memmap' = r.mm
        /\ live' = Released(live, ptr, r.freed)
        /\ ret' = Ret("rfree", NULL, ptr, r.err)
        /\ panicked' = r.panic
        /\ UNCHANGED <<debug_block_free, pc>>

Rrealloc(core, ptr, zone, caps, bytes, intact) ==
    LET r == rrealloc(memmap, core, ptr, zone, caps, bytes,
                      debug_block_free, intact)
    IN  /\ ~panicked
        /\ Cardinality(live) < MaxLive
        /\ memmap' = r.mm
        /\ live' = Released(Allocated(r, bytes), ptr, r.freed)
        /\ ret' = Ret("rrealloc", r.ptr, ptr, r.err)
        /\ panicked' = r.panic
        /\ UNCHANGED <<debug_block_free, pc>>

RbreallocAlign(core, ptr, caps, bytes, alignment, intact) ==
    LET r == rbrealloc_align(memmap, core, ptr, caps, bytes, alignment,
                             debug_block_free, intact)
    IN  /\ ~panicked
        /\ Cardinality(live) < MaxLive
        /\ memmap' = r.mm
        /\ live' = Released(Allocated(r, bytes), ptr, r.freed)
        /\ ret' = Ret("rbrealloc_align", r.ptr, ptr, r.err)
        /\ panicked' = r.panic
        /\ UNCHANGED <<debug_block_free, pc>>

FreeHeap(core, zone) ==
    LET r == free_heap(memmap, core, zone)
    IN  /\ ~panicked
        /\ memmap' = r.mm
        /\ live' = HeapFreed(live, memmap, core, r)
        /\ ret' = Ret("free_heap", NULL, NULL, r.err)
        /\ panicked' = r.panic
        /\ UNCHANGED <<debug_block_free, pc>>

Next ==
    \/ \E core \in Cores, zone \in Zones, caps \in CapsSet,
          bytes \in MallocBytes : Rmalloc(core, zone, caps, bytes)
    \/ \E core \in Cores, zone \in ReallocZones, caps \in {{"RAM"}},
          bytes \in MallocBytes : Rzalloc(core, zone, caps, bytes)
    \/ \E caller \in Cores, core \in Cores, bytes \in MallocBytes :
          RzallocCoreSys(caller, core, bytes)
    \/ \E core \in Cores, caps \in CapsSet, bytes \in BufferBytes,
          alignment \in Alignments :
          RballocAlign(core, caps, bytes, alignment)
    \/ \E core \in Cores, ptr \in FreePtrs, intact \in Contents :
          Rfree(core, ptr, intact)
    \/ \E core \in Cores, ptr \in LivePtrs \cup {NULL},
          zone \in ReallocZones, caps \in ReallocCaps,
          bytes \in MallocBytes, intact \in Contents :
          Rrealloc(core, ptr, zone, caps, bytes, intact)
    \/ \E core \in Cores, ptr \in LivePtrs \cup {NULL}, caps \in {{"RAM"}},
          bytes \in ReallocBufferBytes, alignment \in ReallocAlignments,
          intact \in Contents :
          RbreallocAlign(core, ptr, caps, bytes, alignment, intact)
    \/ \E core \in Cores, zone \in Zones : FreeHeap(core, zone)

\* the default build: CONFIG_DEBUG_BLOCK_FREE is not set
Spec == Init /\ [][Next]_vars

\* either build
InitDebug ==
    /\ memmap = init_heap(StaticMemmap)
    /\ live = {}
    /\ ret = Ret("init_heap", NULL, NULL, FALSE)
    /\ panicked = FALSE
    /\ debug_block_free \in BOOLEAN
    /\ pc = [c \in Cores |-> Idle]

SpecDebug == InitDebug /\ [][Next]_vars

-----------------------------------------------------------------------------
(* The specification in which a public call is the steps its code makes:   *)
(* spin_lock_irq(), the body under the lock, spin_unlock_irq(), and for    *)
(* the zeroing calls the bzero() of the memory returned.  The calls of the *)
(* two cores interleave step by step.  pc[core] is where the core stands:  *)
(*   "locked"  it has taken the lock and is about to run the body,         *)
(*   "bzero"   it is about to zero the memory it got,                      *)
(*   "unlock"  it is about to release the lock,                            *)
(*   "reset"   it has entered free_heap() and is about to reset its system *)
(*             heap.                                                       *)

\* the calls that core makes in this specification
Call(op, zone, caps, bytes, alignment, ptr, target) ==
    [op |-> op, zone |-> zone, caps |-> caps, bytes |-> bytes,
     alignment |-> alignment, ptr |-> ptr, target |-> target]

AllocCalls ==
    {Call("rmalloc", SOF_MEM_ZONE_SYS_RUNTIME, {"RAM"}, 40, 0, NULL, 0),
     Call("rzalloc", SOF_MEM_ZONE_RUNTIME, {"RAM"}, 40, 0, NULL, 0),
     Call("rballoc_align", SOF_MEM_ZONE_BUFFER, {"RAM"}, 100, 8, NULL, 0)}
    \cup {Call("rzalloc_core_sys", SOF_MEM_ZONE_SYS, {}, 40, 0, NULL, t) :
            t \in Cores}
FreeCalls ==
    {Call("rfree", SOF_MEM_ZONE_SYS, {}, 0, 0, p, 0) : p \in LivePtrs}
ReallocCalls ==
    {Call("rrealloc", SOF_MEM_ZONE_RUNTIME, {"RAM"}, 40, 0, p, 0) :
        p \in LivePtrs} \cup
    {Call("rbrealloc_align", SOF_MEM_ZONE_BUFFER, {"RAM"}, 100, 8, p, 0) :
        p \in LivePtrs}

At(core, call, at, ptr) == [at |-> at, call |-> call, ptr |-> ptr]

\* spin_lock_irq(&memmap->lock, flags): the core waits until the lock is free
Lock(core, call) ==
    /\ ~panicked
    /\ pc[core] = Idle
    /\ memmap.lock = {}
    /\ call.op \in {"rfree"} \/ Cardinality(live) < MaxLive
    /\ memmap' = spin_lock_irq(memmap, core)
    /\ pc' = [pc EXCEPT ![core] = At(core, call, "locked", NULL)]
    /\ UNCHANGED <<live, ret, panicked, debug_block_free>>

\* the core goes on after the body: rzalloc_core_sys() zeroes under the lock
AfterBody(core, call, r) ==
    IF call.op = "rzalloc_core_sys" /\ r.ptr # NULL
    THEN At(core, call, "bzero", r.ptr)
    ELSE At(core, call, "unlock", r.ptr)

\* the body of rmalloc(), rzalloc(), rzalloc_core_sys() and rballoc_align()
AllocBody(core) ==
    /\ ~panicked
    /\ pc[core].at = "locked"
    /\ pc[core].call \in AllocCalls
    /\ \E call \in {pc[core].call} :
       \E r \in {CASE call.op = "rzalloc_core_sys" ->
                        rmalloc_sys(memmap, {}, call.target, call.bytes)
                   [] call.op = "rballoc_align" ->
                        _balloc_unlocked(memmap, call.caps, call.bytes,
                                         call.alignment)
                   [] OTHER ->
                        _malloc_unlocked(memmap, core, call.zone, call.caps,
                                         call.bytes)} :
          /\ memmap' = r.mm
          /\ live' = Allocated(r, call.bytes)
          /\ ret' = Ret(call.op, r.ptr, NULL, r.err)
          /\ panicked' = r.panic
          /\ pc' = [pc EXCEPT ![core] = AfterBody(core, call, r)]
          /\ UNCHANGED debug_block_free

\* the body of rfree()
FreeBody(core) ==
    /\ ~panicked
    /\ pc[core].at = "locked"
    /\ pc[core].call.op = "rfree"
    /\ \E call \in {pc[core].call} :
       \E r \in {_rfree_unlocked(memmap, core, call.ptr, debug_block_free,
                                 FALSE)} :
          /\ memmap' = r.mm
          /\ live' = Released(live, call.ptr, r.freed)
          /\ ret' = Ret("rfree", NULL, call.ptr, r.err)
          /\ panicked' = r.panic
          /\ pc' = [pc EXCEPT ![core] = At(core, call, "unlock", NULL)]
          /\ UNCHANGED debug_block_free

\* the body of rrealloc() and rbrealloc_align(), bytes not 0
ReallocBody(core) ==
    /\ ~panicked
    /\ pc[core].at = "locked"
    /\ pc[core].call.op \in {"rrealloc", "rbrealloc_align"}
    /\ \E call \in {pc[core].call} :
       \E r \in {ReallocTail(
                    IF call.op = "rrealloc"
                    THEN _malloc_unlocked(memmap, core, call.zone, call.caps,
                                          call.bytes)
                    ELSE _balloc_unlocked(memmap, call.caps, call.bytes,
                                          call.alignment),
                    core, call.ptr, debug_block_free, FALSE)} :
          /\ memmap' = r.mm
          /\ live' = Released(Allocated(r, call.bytes), call.ptr, r.freed)
          /\ ret' = Ret(call.op, r.ptr, call.ptr, r.err)
          /\ panicked' = r.panic
          /\ pc' = [pc EXCEPT ![core] = At(core, call, "unlock", r.ptr)]
          /\ UNCHANGED debug_block_free

\* spin_unlock_irq(&memmap->lock, flags); rzalloc() has its bzero() after
\* the rmalloc() it calls has returned
Unlock(core) ==
    /\ ~panicked
    /\ pc[core].at = "unlock"
    /\ memmap' = spin_unlock_irq(memmap)
    /\ pc' = [pc EXCEPT ![core] =
                IF pc[core].call.op = "rzalloc" /\ pc[core].ptr # NULL
                THEN At(core, pc[core].call, "bzero", pc[core].ptr)
                ELSE Idle]
    /\ UNCHANGED <<live, ret, panicked, debug_block_free>>

\* bzero(ptr, bytes): writes the memory handed out, no allocator state
Bzero(core) ==
    /\ ~panicked
    /\ pc[core].at = "bzero"
    /\ pc' = [pc EXCEPT ![core] =
                IF pc[core].call.op = "rzalloc_core_sys"
                THEN At(core, pc[core].call, "unlock", pc[core].ptr)
                ELSE Idle]
    /\ UNCHANGED <<memmap, live, ret, panicked, debug_block_free>>

\* free_heap(zone) is entered: it takes no lock
FreeHeapEnter(core, zone) ==
    /\ ~panicked
    /\ pc[core] = Idle
    /\ pc' = [pc EXCEPT ![core] =
                At(core, Call("free_heap", zone, {}, 0, 0, NULL, core),
                   "reset", NULL)]
    /\ UNCHANGED <<memmap, live, ret, panicked, debug_block_free>>

\* free_heap(): the check, and the reset of the system heap of the core
FreeHeapReset(core) ==
    /\ ~panicked
    /\ pc[core].at = "reset"
    /\ \E r \in {free_heap(memmap, core, pc[core].call.zone)} :
          /\ memmap' = r.mm
          /\ live' = HeapFreed(live, memmap, core, r)
          /\ ret' = Ret("free_heap", NULL, NULL, r.err)
          /\ panicked' = r.panic
    /\ pc' = [pc EXCEPT ![core] = Idle]
    /\ UNCHANGED debug_block_free

NextLock ==
    \/ \E core \in Cores :
          \E call \in AllocCalls \cup FreeCalls \cup ReallocCalls :
              Lock(core, call)
    \/ \E core \in Cores : AllocBody(core)
    \/ \E core \in Cores : FreeBody(core)
    \/ \E core \in Cores : ReallocBody(core)
    \/ \E core \in Cores : Unlock(core)
    \/ \E core \in Cores : Bzero(core)
    \/ \E core \in Cores : FreeHeapEnter(core, SOF_MEM_ZONE_SYS)
    \/ \E core \in Cores : FreeHeapReset(core)

SpecLock == Init /\ [][NextLock]_vars

-----------------------------------------------------------------------------
(* The specification of the System-zone calls in which rmalloc_sys() and   *)
(* free_heap() are the statements their code makes on info.used and        *)
(* info.free of a system heap.  rmalloc() and rzalloc_core_sys() run       *)
(* rmalloc_sys() between spin_lock_irq() and spin_unlock_irq(); free_heap() *)
(* takes no lock, so its two assignments interleave with the statements of *)
(* an rmalloc_sys() that another core runs on the same heap.  pc[core] is  *)
(* where the core stands:                                                  *)
(*   "locked"     about to test the caps and read info.used for the        *)
(*                padding (lines 164-171),                                 *)
(*   "space"      about to test alignment + bytes against info.free (174), *)
(*   "add_pad"    about to run info.used += alignment (179),               *)
(*   "ptr"        about to run ptr = heap + info.used (181),               *)
(*   "add_bytes"  about to run info.used += bytes (183),                   *)
(*   "sub_free"   about to run info.free -= alignment + bytes (184),       *)
(*   "reset"      in free_heap(), about to run info.used = 0 (1009),       *)
(*   "set_free"   in free_heap(), about to run info.free = size (1010).    *)

\* the sizes the System-zone calls of this specification ask for
SysCallBytes == {24, 40}

\* the System-zone calls that core makes
SysCalls(core) ==
    {Call("rmalloc", SOF_MEM_ZONE_SYS, {"RAM"}, b, 0, NULL, core) :
        b \in SysCallBytes} \cup
    {Call("rzalloc_core_sys", SOF_MEM_ZONE_SYS, {}, b, 0, NULL, t) :
        b \in SysCallBytes, t \in Cores}

\* the core inside rmalloc_sys(): its locals alignment and ptr
SysAt(call, at, alignment, ptr) ==
    [at |-> at, call |-> call, ptr |-> ptr, alignment |-> alignment]

\* panic(SOF_IPC_PANIC_MEM) inside rmalloc_sys()
SysPanic(core, err) ==
    /\ panicked' = TRUE
    /\ ret' = Ret(pc[core].call.op, NULL, NULL, err)
    /\ UNCHANGED <<memmap, live, debug_block_free, pc>>

\* rmalloc_sys(), lines 164-171: the caps test, and the padding computed
\* from info.used
SysPad(core) ==
    /\ ~panicked
    /\ pc[core].at = "locked"
    /\ pc[core].call \in SysCalls(core)
    /\ \E cpu_heap \in {memmap.system[pc[core].call.target + 1]} :
          IF CapsMask(cpu_heap.caps, pc[core].call.caps) # pc[core].call.caps
          THEN SysPanic(core, FALSE)
          ELSE /\ pc' = [pc EXCEPT ![core] =
                           SysAt(pc[core].call, "space",
                                 IF cpu_heap.info.used % PLATFORM_DCACHE_ALIGN
                                        # 0
                                 THEN PLATFORM_DCACHE_ALIGN -
                                      (cpu_heap.info.used
                                           % PLATFORM_DCACHE_ALIGN)
                                 ELSE 0,
                                 NULL)]
               /\ UNCHANGED <<memmap, live, ret, panicked, debug_block_free>>

\* lines 174-178: "always succeeds or panics"
SysSpace(core) ==
    /\ ~panicked
    /\ pc[core].at = "space"
    /\ IF pc[core].alignment + pc[core].call.bytes
              > memmap.system[pc[core].call.target + 1].info.free
       THEN SysPanic(core, TRUE)
       ELSE /\ pc' = [pc EXCEPT ![core].at = "add_pad"]
            /\ UNCHANGED <<memmap, live, ret, panicked, debug_block_free>>

\* line 179: cpu_heap->info.used += alignment
SysAddPad(core) ==
    /\ ~panicked
    /\ pc[core].at = "add_pad"
    /\ memmap' = [memmap EXCEPT
                    !.system[pc[core].call.target + 1].info.used =
                        @ + pc[core].alignment]
    /\ pc' = [pc EXCEPT ![core].at = "ptr"]
    /\ UNCHANGED <<live, ret, panicked, debug_block_free>>

\* line 181: ptr = cpu_heap->heap + cpu_heap->info.used
SysPtr(core) ==
    /\ ~panicked
    /\ pc[core].at = "ptr"
    /\ pc' = [pc EXCEPT
                ![core].at = "add_bytes",
                ![core].ptr =
                    memmap.system[pc[core].call.target + 1].heap +
                    memmap.system[pc[core].call.target + 1].info.used]
    /\ UNCHANGED <<memmap, live, ret, panicked, debug_block_free>>

\* line 183: cpu_heap->info.used += bytes
SysAddBytes(core) ==
    /\ ~panicked
    /\ pc[core].at = "add_bytes"
    /\ memmap' = [memmap EXCEPT
                    !.system[pc[core].call.target + 1].info.used =
                        @ + pc[core].call.bytes]
    /\ pc' = [pc EXCEPT ![core].at = "sub_free"]
    /\ UNCHANGED <<live, ret, panicked, debug_block_free>>

\* line 184: cpu_heap->info.free -= alignment + bytes, and the return of
\* ptr; _malloc_unlocked() sets heap_trace_updated behind rmalloc_sys()
SysSubFree(core) ==
    /\ ~panicked
    /\ pc[core].at = "sub_free"
    /\ memmap' = [memmap EXCEPT
                    !.system[pc[core].call.target + 1].info.free =
                        @ - (pc[core].alignment + pc[core].call.bytes),
                    !.heap_trace_updated =
                        IF pc[core].call.op = "rmalloc" THEN 1 ELSE @]
    /\ live' = live \cup {[ptr |-> pc[core].ptr,
                           bytes |-> pc[core].call.bytes]}
    /\ ret' = Ret(pc[core].call.op, pc[core].ptr, NULL, FALSE)
    /\ pc' = [pc EXCEPT ![core] =
                AfterBody(core, pc[core].call, [ptr |-> pc[core].ptr])]
    /\ UNCHANGED <<panicked, debug_block_free>>

\* free_heap(), lines 1002-1009: the check of the caller and the zone, and
\* cpu_heap->info.used = 0
FreeHeapUsed(core) ==
    /\ ~panicked
    /\ pc[core].at = "reset"
    /\ IF core = PLATFORM_MASTER_CORE_ID \/
          pc[core].call.zone # SOF_MEM_ZONE_SYS
       THEN /\ panicked' = TRUE
            /\ ret' = Ret("free_heap", NULL, NULL, TRUE)
            /\ UNCHANGED <<memmap, pc>>
       ELSE /\ memmap' = [memmap EXCEPT !.system[core + 1].info.used = 0]
            /\ pc' = [pc EXCEPT ![core].at = "set_free"]
            /\ UNCHANGED <<ret, panicked>>
    /\ UNCHANGED <<live, debug_block_free>>

\* line 1010: cpu_heap->info.free = cpu_heap->size, and the return
FreeHeapFree(core) ==
    /\ ~panicked
    /\ pc[core].at = "set_free"
    /\ memmap' = [memmap EXCEPT !.system[core + 1].info.free =
                                    memmap.system[core + 1].size]
    /\ live' = {a \in live : ~InHeap(memmap.system[core + 1], a.ptr)}
    /\ ret' = Ret("free_heap", NULL, NULL, FALSE)
    /\ pc' = [pc EXCEPT ![core] = Idle]
    /\ UNCHANGED <<panicked, debug_block_free>>

NextSys ==
    \/ \E core \in Cores : \E call \in SysCalls(core) : Lock(core, call)
    \/ \E core \in Cores : SysPad(core)
    \/ \E core \in Cores : SysSpace(core)
    \/ \E core \in Cores : SysAddPad(core)
    \/ \E core \in Cores : SysPtr(core)
    \/ \E core \in Cores : SysAddBytes(core)
    \/ \E core \in Cores : SysSubFree(core)
    \/ \E core \in Cores : Bzero(core)
    \/ \E core \in Cores : Unlock(core)
    \/ \E core \in Cores : FreeHeapEnter(core, SOF_MEM_ZONE_SYS)
    \/ \E core \in Cores : FreeHeapUsed(core)
    \/ \E core \in Cores : FreeHeapFree(core)

SpecSys == Init /\ [][NextSys]_vars

-----------------------------------------------------------------------------
(* What the properties below look at.                                      *)

\* the block-map heaps of a memory map, and all its heaps
BlockHeaps(mm) ==
    {mm.system_runtime[i] : i \in 1 .. PLATFORM_HEAP_SYSTEM_RUNTIME} \cup
    {mm.runtime[i] : i \in 1 .. PLATFORM_HEAP_RUNTIME} \cup
    {mm.buffer[i] : i \in 1 .. PLATFORM_HEAP_BUFFER}
AllHeaps(mm) ==
    BlockHeaps(mm) \cup {mm.system[i] : i \in 1 .. PLATFORM_CORE_COUNT}
\* the block maps of a memory map
BlockMaps(mm) == UNION {{h.map[j] : j \in 1 .. h.blocks} : h \in BlockHeaps(mm)}

\* the 0-based indices of the unused headers of a map
FreeBlocks(map) == {i \in 0 .. map.count - 1 : map.block[i + 1].used = 0}

\* the heaps alone: the memory map without heap_trace_updated and the lock
Heaps(mm) == <<mm.system, mm.system_runtime, mm.runtime, mm.buffer>>

RECURSIVE SumUsed(_, _)
\* the sum over maps 1 .. j of heap h of block_size * (count - free_count)
SumUsed(h, j) ==
    IF j = 0 THEN 0
    ELSE SumUsed(h, j - 1) +
         h.map[j].block_size * (h.map[j].count - h.map[j].free_count)

\* the run of used blocks of map that starts at block s holds [ptr, ptr+bytes)
RunHolds(map, s, ptr, bytes) ==
    LET hdr == map.block[s + 1]
        start == map.base + s * map.block_size
    IN  /\ hdr.used = 1
        /\ hdr.size >= 1
        /\ hdr.unaligned_ptr = start
        /\ s + hdr.size <= map.count
        /\ \A k \in s .. s + hdr.size - 1 :
              /\ map.block[k + 1].used = 1
              /\ map.block[k + 1].unaligned_ptr = start
        /\ start <= ptr
        /\ ptr + bytes <= start + hdr.size * map.block_size

\* [ptr, ptr + bytes) lies inside a run of blocks that are marked used for it
InsideUsedBlocks(mm, ptr, bytes) ==
    \E map \in BlockMaps(mm) : \E s \in 0 .. map.count - 1 :
        RunHolds(map, s, ptr, bytes)

-----------------------------------------------------------------------------
(* C1: after every sequence of allocations, frees and reallocs, the        *)
(* free_count of every block map is the number of its headers with         *)
(* used = 0.                                                               *)

FreeCountInv ==
    \A map \in BlockMaps(memmap) :
        map.free_count = Cardinality(FreeBlocks(map))

\* a free has just left a map that is partly used
FreeCountWitness ==
    /\ ret.op = "rfree"
    /\ ret.old # NULL
    /\ ~ret.err
    /\ \E map \in BlockMaps(memmap) :
          map.free_count > 0 /\ map.free_count < map.count

-----------------------------------------------------------------------------
(* C2, as the specification states it: every block map has                 *)
(* 0 <= first_free <= count, blocks[first_free] unused when first_free <   *)
(* count, and every block below first_free used; also right after an       *)
(* alloc_block() that takes the last free block of a map.                  *)

-----------------------------------------------------------------------------
(* C3: for every block-map heap info.used is the sum over its maps of      *)
(* block_size * (count - free_count), and info.used + info.free <= size.   *)

InfoInv ==
    \A h \in BlockHeaps(memmap) :
        /\ h.info.used = SumUsed(h, h.blocks)
        /\ h.info.used + h.info.free <= h.size

\* a heap with two maps has blocks of both in use
InfoWitness ==
    \E h \in BlockHeaps(memmap) :
        /\ h.blocks = 2
        /\ h.map[1].free_count < h.map[1].count
        /\ h.map[2].free_count < h.map[2].count
        /\ h.info.used > 0

-----------------------------------------------------------------------------
(* C4: the byte ranges [p, p + bytes) of any two allocations that are live *)
(* at the same time are disjoint.                                          *)

Disjoint(a, b) == a.ptr + a.bytes <= b.ptr \/ b.ptr + b.bytes <= a.ptr

NonOverlap ==
    \A a \in live : \A b \in live : a # b => Disjoint(a, b)

\* two live allocations of one map: one with a pointer shifted for the
\* alignment, one a run of several blocks
NonOverlapWitness ==
    \E a \in live : \E b \in live :
        /\ a # b
        /\ \E map \in BlockMaps(memmap) :
              /\ \E s \in 0 .. map.count - 1 :
                    /\ RunHolds(map, s, a.ptr, a.bytes)
                    /\ a.ptr # map.block[s + 1].unaligned_ptr
              /\ \E s \in 0 .. map.count - 1 :
                    /\ RunHolds(map, s, b.ptr, b.bytes)
                    /\ map.block[s + 1].size > 1

-----------------------------------------------------------------------------
(* C5: for every power-of-two alignment up to 4096 and every bytes, in     *)
(* every reachable state, a non-null return of rballoc_align() is a        *)
(* multiple of the alignment and [ptr, ptr + bytes) lies inside the        *)
(* block(s) marked used for it.                                            *)

PowerOfTwoAlignments == {2 ^ k : k \in 0 .. 12}

AlignmentInv ==
    \A caps \in CapsSet, bytes \in BufferBytes,
       alignment \in PowerOfTwoAlignments :
        \A r \in {rballoc_align(memmap, PLATFORM_MASTER_CORE_ID, caps, bytes,
                                alignment)} :
            r.ptr # NULL =>
                /\ r.ptr % alignment = 0
                /\ InsideUsedBlocks(r.mm, r.ptr, bytes)

\* rballoc_align() has returned a run of several blocks with a pointer
\* shifted to a multiple of 128
AlignmentWitness ==
    /\ ret.op = "rballoc_align"
    /\ ret.ptr # NULL
    /\ ret.ptr % 128 = 0
    /\ \E map \in BlockMaps(memmap) : \E s \in 0 .. map.count - 1 :
          /\ RunHolds(map, s, ret.ptr, 1)
          /\ map.block[s + 1].size > 1
          /\ map.block[s + 1].unaligned_ptr # ret.ptr

-----------------------------------------------------------------------------
(* C6: from any reachable state, when an allocation from a block-map heap  *)
(* succeeds and the pointer is freed right away, free_count, info.used,    *)
(* info.free and every block header are as before the allocation, and      *)
(* first_free is at most what it was.                                      *)

\* a heap without the first_free of its maps
NoFirstFree(h) ==
    [h EXCEPT !.map = [j \in 1 .. h.blocks |->
                          [h.map[j] EXCEPT !.first_free = 0]]]

\* post is pre, but for first_free, which is nowhere larger
Restored(pre, post) ==
    /\ pre.system = post.system
    /\ \A arr \in {"system_runtime", "runtime", "buffer"} :
          \A i \in 1 .. Len(pre[arr]) :
              /\ NoFirstFree(pre[arr][i]) = NoFirstFree(post[arr][i])
              /\ \A j \in 1 .. pre[arr][i].blocks :
                    post[arr][i].map[j].first_free
                        <= pre[arr][i].map[j].first_free

\* r is the result of an allocation made in the current state
RoundTrip(core, r) ==
    (r.ptr # NULL /\ ~r.panic) =>
        \A f \in {rfree(r.mm, core, r.ptr, debug_block_free, FALSE)} :
            f.freed /\ ~f.panic /\ Restored(memmap, f.mm)

RoundTripInv ==
    /\ \A core \in Cores, caps \in CapsSet, bytes \in MallocBytes,
          zone \in {SOF_MEM_ZONE_SYS_RUNTIME, SOF_MEM_ZONE_RUNTIME} :
          RoundTrip(core, rmalloc(memmap, core, zone, caps, bytes))
    /\ \A core \in Cores, caps \in CapsSet, bytes \in BufferBytes,
          alignment \in Alignments :
          RoundTrip(core, rballoc_align(memmap, core, caps, bytes, alignment))

\* the free of the only live allocation has left every heap as init_heap()
\* left it
RoundTripWitness ==
    /\ ret.op = "rfree"
    /\ ret.old # NULL
    /\ ~ret.err
    /\ live = {}
    /\ memmap.heap_trace_updated = 1
    /\ Heaps(memmap) = Heaps(init_heap(StaticMemmap))

-----------------------------------------------------------------------------
(* C7: every non-null pointer that rmalloc(), rzalloc(), rballoc_align(),  *)
(* rrealloc() or rbrealloc_align() returns for a request with mask caps    *)
(* lies within a heap with (heap.caps & caps) == caps, and no heap that    *)
(* lacks a bit of caps has served the request.                             *)

\* r is the result of a request with mask caps made in the current state
CapsRespected(r, caps) ==
    r.ptr # NULL =>
        /\ \E h \in AllHeaps(r.mm) : InHeap(h, r.ptr)
        /\ \A h \in AllHeaps(r.mm) :
              InHeap(h, r.ptr) => CapsMask(h.caps, caps) = caps
        /\ \A arr \in {"system", "system_runtime", "runtime", "buffer"} :
              \A i \in 1 .. Len(memmap[arr]) :
                  r.mm[arr][i].info.used > memmap[arr][i].info.used
                      => CapsMask(memmap[arr][i].caps, caps) = caps

-----------------------------------------------------------------------------
(* C9: when rrealloc() or rbrealloc_align() returns null, because the new  *)
(* allocation failed or because bytes is 0, the old allocation is as it    *)
(* was: no block header, free_count, first_free or used/free counter of    *)
(* any heap has changed.                                                   *)

\* r is the result of a realloc made in the current state
NullLeavesHeaps(r) ==
    (r.ptr = NULL /\ ~r.panic) => (~r.freed /\ Heaps(r.mm) = Heaps(memmap))

NullReallocInv ==
    /\ \A core \in Cores, ptr \in LivePtrs, zone \in Zones, caps \in CapsSet,
          bytes \in MallocBytes :
          NullLeavesHeaps(rrealloc(memmap, core, ptr, zone, caps, bytes,
                                   debug_block_free, FALSE))
    /\ \A core \in Cores, ptr \in LivePtrs, caps \in CapsSet,
          bytes \in BufferBytes \cup {0}, alignment \in Alignments :
          NullLeavesHeaps(rbrealloc_align(memmap, core, ptr, caps, bytes,
                                          alignment, debug_block_free, FALSE))

\* rbrealloc_align() of a live buffer has returned null after a trace error:
\* the new allocation failed, the old one is still live
NullReallocWitness ==
    /\ ret.op = "rbrealloc_align"
    /\ ret.ptr = NULL
    /\ ret.err
    /\ ~panicked
    /\ \E a \in live : a.ptr = ret.old /\ InsideUsedBlocks(memmap, a.ptr, a.bytes)

-----------------------------------------------------------------------------
(* C10, as the specification states it: when rrealloc(p, Runtime, 0, caps, *)
(* new_bytes) succeeds for a live p, the pointer returned is a new         *)
(* allocation distinct from p, all blocks of p are unused afterwards, and  *)
(* an rfree(p) that follows emits a trace error.                           *)

\* free_block() called on core finds the heap of p
Findable(core, p) == get_heap_from_ptr(memmap, core, p) # NoHeap

\* p is the base of a block
IsBlockBase(p) ==
    \E map \in BlockMaps(memmap) : \E i \in 0 .. map.count - 1 :
        p = map.base + i * map.block_size

\* the blocks that are marked used for p in the current state are unused
\* in post
RunUnused(post, p) ==
    \A arr \in {"system_runtime", "runtime", "buffer"} :
        \A i \in 1 .. Len(memmap[arr]) :
            \A j \in 1 .. memmap[arr][i].blocks :
                \A s \in 0 .. memmap[arr][i].map[j].count - 1 :
                    RunHolds(memmap[arr][i].map[j], s, p, 1) =>
                        \A k \in s .. s + memmap[arr][i].map[j]
                                            .block[s + 1].size - 1 :
                            post[arr][i].map[j].block[k + 1] = FreeHdr

ReallocStrict ==
    \A core \in Cores, p \in LivePtrs, caps \in ReallocCaps,
       bytes \in MallocBytes \ {0}, intact \in Contents :
        \A r \in {rrealloc(memmap, core, p, SOF_MEM_ZONE_RUNTIME, caps, bytes,
                           debug_block_free, intact)} :
            (r.ptr # NULL /\ ~r.panic) =>
                /\ r.ptr # p
                /\ r.ptr \notin LivePtrs
                /\ RunUnused(r.mm, p)
                /\ \A f \in {rfree(r.mm, core, p, debug_block_free, FALSE)} :
                      f.err

(* C10, as the code has it: the pointer returned is a new allocation       *)
(* distinct from p.  When the calling core finds the heap of p (p is not   *)
(* in the system_runtime heap or the system heap of another core), the     *)
(* blocks of p are unused afterwards; else rrealloc() emits a trace error  *)
(* and leaves p allocated.  An rfree(p) that follows changes no heap; it   *)
(* emits a trace error ("double free detected") only in a                  *)
(* CONFIG_DEBUG_BLOCK_FREE build, and it ends in panic() when p is not the *)
(* base of a block.                                                        *)

ReallocInv ==
    \A core \in Cores, p \in LivePtrs, caps \in ReallocCaps,
       bytes \in MallocBytes \ {0}, intact \in Contents :
        \A r \in {rrealloc(memmap, core, p, SOF_MEM_ZONE_RUNTIME, caps, bytes,
                           debug_block_free, intact)} :
            (r.ptr # NULL /\ ~r.panic) =>
                /\ r.ptr # p
                /\ r.ptr \notin LivePtrs
                /\ InsideUsedBlocks(r.mm, r.ptr, bytes)
                /\ IF Findable(core, p)
                   THEN /\ r.freed
                        /\ RunUnused(r.mm, p)
                        /\ \A f \in {rfree(r.mm, core, p, debug_block_free,
                                           FALSE)} :
                              IF IsBlockBase(p)
                              THEN /\ ~f.panic
                                   /\ f.err = debug_block_free
                                   /\ Heaps(f.mm) = Heaps(r.mm)
                              ELSE f.panic
                   ELSE /\ ~r.freed
                        /\ r.err
                        /\ Heaps(r.mm)[2] = memmap.system_runtime

\* in a CONFIG_DEBUG_BLOCK_FREE build rrealloc() has returned a new pointer
\* for a p whose blocks are now unused
ReallocWitness ==
    /\ debug_block_free
    /\ ret.op = "rrealloc"
    /\ ret.ptr # NULL
    /\ ret.old # NULL
    /\ ret.ptr # ret.old
    /\ ret.old \notin LivePtrs
    /\ ret.ptr \in LivePtrs
    /\ \E map \in BlockMaps(memmap) : \E i \in 0 .. map.count - 1 :
          /\ ret.old = map.base + i * map.block_size
          /\ map.block[i + 1] = FreeHdr

-----------------------------------------------------------------------------
(* C8, as the specification states it: every public entry point holds the  *)
(* memmap lock for its entire operation; a core that is about to read or   *)
(* write heap state, or to zero the memory being handed out, holds the     *)
(* lock.                                                                   *)

UnderLock(core) ==
    \/ pc[core].at \in {"locked", "unlock"}
    \/ pc[core].at = "bzero" /\ pc[core].call.op = "rzalloc_core_sys"

-----------------------------------------------------------------------------
(* C11: whenever rmalloc() from the SYS_RUNTIME or RUNTIME zone, or        *)
(* rballoc_align(), returns null, no block header, no free_count or        *)
(* first_free of a map and no info.used or info.free of a heap differs     *)
(* from its value before the call.                                         *)

NoPartialSuccess ==
    /\ \A core \in Cores, caps \in CapsSet, bytes \in MallocBytes \cup {200},
          zone \in {SOF_MEM_ZONE_SYS_RUNTIME, SOF_MEM_ZONE_RUNTIME} :
          \A r \in {rmalloc(memmap, core, zone, caps, bytes)} :
              (r.ptr = NULL /\ ~r.panic) => Heaps(r.mm) = Heaps(memmap)
    /\ \A core \in Cores, caps \in CapsSet, bytes \in BufferBytes \cup {1000},
          alignment \in Alignments :
          \A r \in {rballoc_align(memmap, core, caps, bytes, alignment)} :
              (r.ptr = NULL /\ ~r.panic) => Heaps(r.mm) = Heaps(memmap)

\* rballoc_align() has returned null after the search for a run of blocks
\* failed in a map that is partly used, and the only live allocation still
\* accounts for all that is used
NoPartialSuccessWitness ==
    /\ ret.op = "rballoc_align"
    /\ ret.ptr = NULL
    /\ ret.err
    /\ ~panicked
    /\ Cardinality(live) = 1
    /\ \E h \in BlockHeaps(memmap) :
          /\ \E j \in 1 .. h.blocks :
                h.map[j].free_count > 0 /\ h.map[j].free_count < h.map[j].count
          /\ h.info.used = SumUsed(h, h.blocks)

-----------------------------------------------------------------------------
(* C12, as the specification states it: a second rfree() of a pointer that *)
(* an rfree() has just released, with no allocation in between, returns    *)
(* without panic() for every pointer the allocator hands out, also one     *)
(* that was shifted away from its block base for the alignment, and        *)
(* changes no header and no counter, so that free_count still is the       *)
(* number of unused headers.                                               *)

DoubleFreeStrict ==
    \A c1 \in Cores, c2 \in Cores, p \in LivePtrs, intact \in Contents :
        \A f1 \in {rfree(memmap, c1, p, debug_block_free, intact)} :
            (f1.freed /\ ~f1.panic) =>
                \A f2 \in {rfree(f1.mm, c2, p, debug_block_free, TRUE)} :
                    /\ ~f2.panic
                    /\ Heaps(f2.mm) = Heaps(f1.mm)
                    /\ \A map \in BlockMaps(f2.mm) :
                          map.free_count = Cardinality(FreeBlocks(map))

(* C12, as the code has it: the second rfree() changes no header and no    *)
(* counter, and free_count still is the number of unused headers.  It      *)
(* returns when the pointer is the base of a block, or when the calling    *)
(* core does not find the heap of the pointer; it ends in panic() when the *)
(* pointer was shifted away from its block base for the alignment, since   *)
(* the header it lies in no longer holds its unaligned_ptr.                *)

DoubleFreeInv ==
    \A c1 \in Cores, c2 \in Cores, p \in LivePtrs, intact \in Contents :
        \A f1 \in {rfree(memmap, c1, p, debug_block_free, intact)} :
            (f1.freed /\ ~f1.panic) =>
                \A f2 \in {rfree(f1.mm, c2, p, debug_block_free, TRUE)} :
                    /\ f2.panic = (/\ ~IsBlockBase(p)
                                   /\ get_heap_from_ptr(f1.mm, c2, p) # NoHeap)
                    /\ Heaps(f2.mm) = Heaps(f1.mm)
                    /\ \A map \in BlockMaps(f2.mm) :
                          map.free_count = Cardinality(FreeBlocks(map))

\* the second rfree() of a pointer that lies inside an unused block, off
\* the base of the block, has ended in panic()
DoubleFreeWitness ==
    /\ ret.op = "rfree"
    /\ panicked
    /\ ret.old # NULL
    /\ ret.old \notin LivePtrs
    /\ \E map \in BlockMaps(memmap) : \E i \in 0 .. map.count - 1 :
          /\ map.base + i * map.block_size < ret.old
          /\ ret.old < map.base + (i + 1) * map.block_size
          /\ map.block[i + 1] = FreeHdr

-----------------------------------------------------------------------------
(* C13, as the specification states it: rfree() of a non-null pointer that *)
(* lies outside every heap range get_heap_from_ptr() consults (the         *)
(* system_runtime heap of the calling core, the runtime heaps, the buffer  *)
(* heaps) emits a trace error and returns without panic(), and changes no  *)
(* block header, free_count, first_free or used/free counter.              *)

\* addresses from below the first heap to above the last, every 32 bytes
ProbeAddresses == {SystemHeapBase - 32 + 32 * k : k \in 0 .. 52}

\* p lies in none of the heaps get_heap_from_ptr() consults on core
Unconsulted(core, p) ==
    /\ ~InHeap(memmap.system_runtime[core + 1], p)
    /\ \A i \in 1 .. PLATFORM_HEAP_RUNTIME : ~InHeap(memmap.runtime[i], p)
    /\ \A i \in 1 .. PLATFORM_HEAP_BUFFER : ~InHeap(memmap.buffer[i], p)

FreeOutsideStrict ==
    \A core \in Cores, p \in ProbeAddresses \cup LivePtrs :
        Unconsulted(core, p) =>
            \A f \in {rfree(memmap, core, p, debug_block_free, FALSE)} :
                /\ f.err
                /\ ~f.panic
                /\ Heaps(f.mm) = Heaps(memmap)

(* C13, as the code has it: the same, for a pointer that is also outside   *)
(* the system heap of the calling core; for a pointer inside that heap     *)
(* rfree() emits the trace error and ends in panic().  In both cases no    *)
(* block header, free_count, first_free or used/free counter changes.      *)

FreeOutsideInv ==
    \A core \in Cores, p \in ProbeAddresses \cup LivePtrs :
        Unconsulted(core, p) =>
            \A f \in {rfree(memmap, core, p, debug_block_free, FALSE)} :
                /\ f.err
                /\ f.panic = InHeap(memmap.system[core + 1], p)
                /\ ~f.freed
                /\ Heaps(f.mm) = Heaps(memmap)

\* rfree() of a live allocation, called on a core whose get_heap_from_ptr()
\* does not consult the heap of the allocation, has emitted a trace error
\* and returned; the allocation is still marked used
FreeOutsideWitness ==
    /\ ret.op = "rfree"
    /\ ret.err
    /\ ~panicked
    /\ ret.old \in LivePtrs
    /\ \E c \in Cores : InHeap(memmap.system_runtime[c + 1], ret.old)
    /\ InsideUsedBlocks(memmap, ret.old, 1)

-----------------------------------------------------------------------------
(* C14, as the specification states it: rfree(p) ends in panic() and       *)
(* modifies no block map whenever p lies inside a system heap system[c],   *)
(* for every core c and whichever core calls rfree(), c or another.        *)

\* the addresses inside the system heap of core c that rfree() is tried on
SystemAddresses(c) ==
    {p \in ProbeAddresses \cup LivePtrs : InHeap(memmap.system[c + 1], p)}

SystemFreeStrict ==
    \A caller \in Cores, c \in Cores : \A p \in SystemAddresses(c) :
        \A f \in {rfree(memmap, caller, p, debug_block_free, FALSE)} :
            /\ f.panic
            /\ Heaps(f.mm) = Heaps(memmap)

(* C14, as the code has it: rfree(p) ends in panic() when p lies inside    *)
(* the system heap of the calling core.  When p lies inside the system     *)
(* heap of another core, rfree() emits a trace error and returns.  In both *)
(* cases no block map and no heap counter is modified.                     *)

SystemFreeInv ==
    \A caller \in Cores, c \in Cores : \A p \in SystemAddresses(c) :
        \A f \in {rfree(memmap, caller, p, debug_block_free, FALSE)} :
            /\ f.panic = (caller = c)
            /\ f.err
            /\ ~f.freed
            /\ Heaps(f.mm) = Heaps(memmap)

\* rfree() of a live allocation from the system heap of the core that is not
\* the master core has returned with a trace error: the master core called
SystemFreeWitness ==
    /\ ret.op = "rfree"
    /\ ret.err
    /\ ~panicked
    /\ ret.old \in LivePtrs
    /\ InHeap(memmap.system[SlaveCore + 1], ret.old)
    /\ memmap.system[SlaveCore + 1].info.used > 0

-----------------------------------------------------------------------------
(* C15: in every reachable state and for every N >= 0, N calls of          *)
(* rfree(NULL) leave all block headers, map counters, heap counters and    *)
(* the heap_trace_updated flag as they were, and emit no trace.            *)

\* n calls of rfree(NULL) on core, one after the other
RECURSIVE RfreeNullTimes(_, _, _)
RfreeNullTimes(mm, core, n) ==
    IF n = 0 THEN FreeRes(mm, FALSE, FALSE, FALSE)
    ELSE LET f == rfree(mm, core, NULL, debug_block_free, FALSE)
             g == RfreeNullTimes(f.mm, core, n - 1)
         IN  FreeRes(g.mm, f.err \/ g.err, f.panic \/ g.panic,
                     f.freed \/ g.freed)

NullFreeInv ==
    \A core \in Cores, n \in 0 .. MaxNullFrees :
        \A f \in {RfreeNullTimes(memmap, core, n)} :
            /\ Heaps(f.mm) = Heaps(memmap)
            /\ f.mm.heap_trace_updated = memmap.heap_trace_updated
            /\ ~f.err
            /\ ~f.panic
            /\ ~f.freed

\* rfree(NULL) has returned while an allocation is live and
\* heap_trace_updated is still 0
NullFreeWitness ==
    /\ ret.op = "rfree"
    /\ ret.old = NULL
    /\ ~ret.err
    /\ ~panicked
    /\ live # {}
    /\ memmap.heap_trace_updated = 0
    /\ memmap.lock = {}

-----------------------------------------------------------------------------
(* C16: a buffer request that does not fit one block and is served from a  *)
(* map with block size b occupies one run of n = ceil((bytes + alignment)  *)
(* / b) consecutive blocks: all n headers are used, the first records the  *)
(* run length n, free_count drops by n; while the map is full every        *)
(* further allocation from it returns null; rfree() of the pointer marks   *)
(* exactly those n blocks unused and raises free_count by n.  One map of 4 *)
(* blocks of 64 bytes: a request of 200 bytes aligned to 8 on the fresh    *)
(* heap returns the heap base and uses all 4 blocks, and its free restores *)
(* free_count = 4.                                                         *)

CeilDiv(a, b) == (a + b - 1) \div b
AlignUp(p, a) == CeilDiv(p, a) * a

\* the request fits one block of a map of heap that has a free block
FitsOneBlock(heap, bytes, alignment) ==
    \E j \in 1 .. heap.blocks :
        /\ heap.map[j].free_count # 0
        /\ heap.map[j].block_size >=
              bytes + (IF (heap.map[j].base + heap.map[j].block_size *
                           heap.map[j].first_free) % alignment # 0
                       THEN alignment ELSE 0)

\* map post is map pre with the n blocks from s on taken as one run
RunTaken(pre, post, s, n) ==
    /\ post.free_count = pre.free_count - n
    /\ post.block[s + 1].size = n
    /\ \A k \in 0 .. pre.count - 1 :
          IF k >= s /\ k < s + n
          THEN /\ pre.block[k + 1].used = 0
               /\ post.block[k + 1].used = 1
               /\ post.block[k + 1].unaligned_ptr =
                     pre.base + s * pre.block_size
          ELSE post.block[k + 1] = pre.block[k + 1]

\* map post is map pre with the n blocks from s on released
RunFreed(pre, post, s, n) ==
    /\ post.free_count = pre.free_count + n
    /\ \A k \in 0 .. pre.count - 1 :
          IF k >= s /\ k < s + n
          THEN post.block[k + 1] = FreeHdr
          ELSE post.block[k + 1] = pre.block[k + 1]

\* no request is served from map j of heap
MapServesNothing(heap, j) ==
    \A bytes \in BufferBytes, alignment \in PowerOfTwoAlignments :
        /\ SingleBlockMap(heap, 0, bytes, alignment) # j - 1
        /\ alloc_cont_blocks(heap, j, bytes + alignment, alignment).ptr = NULL
        /\ alloc_cont_blocks(heap, j, bytes + alignment, alignment).heap = heap
        /\ (\A i \in 1 .. heap.blocks : heap.map[i].free_count = 0) =>
              alloc_heap_buffer(heap, {}, bytes, alignment).ptr = NULL

\* heap post is heap pre after map j served ptr as the run of n blocks from
\* s on, and freed is post after rfree(ptr)
ServedAsRun(pre, post, freed, j, s, n, ptr, alignment) ==
    /\ \A i \in 1 .. pre.blocks : i # j =>
          post.map[i] = pre.map[i] /\ freed.map[i] = pre.map[i]
    /\ RunTaken(pre.map[j], post.map[j], s, n)
    /\ ptr = AlignUp(pre.map[j].base + s * pre.map[j].block_size, alignment)
    /\ post.map[j].free_count = 0 => MapServesNothing(post, j)
    /\ RunFreed(post.map[j], freed.map[j], s, n)

ContRunInv ==
    \A core \in Cores, caps \in CapsSet, bytes \in BufferBytes,
       alignment \in {8, 128, 256}, h \in 1 .. PLATFORM_HEAP_BUFFER :
        \A r \in {rballoc_align(memmap, core, caps, bytes, alignment)} :
            (/\ r.ptr # NULL
             /\ InHeap(memmap.buffer[h], r.ptr)
             /\ ~FitsOneBlock(memmap.buffer[h], bytes, alignment)) =>
                \A f \in {rfree(r.mm, core, r.ptr, debug_block_free,
                                FALSE)} :
                    /\ f.freed
                    /\ ~f.panic
                    /\ \E j \in 1 .. memmap.buffer[h].blocks :
                       \E s \in 0 .. memmap.buffer[h].map[j].count - 1 :
                          ServedAsRun(memmap.buffer[h], r.mm.buffer[h],
                                      f.mm.buffer[h], j, s,
                                      CeilDiv(bytes + alignment,
                                              memmap.buffer[h].map[j]
                                                  .block_size),
                                      r.ptr, alignment)

\* rballoc_align() has served 200 bytes aligned to 8 from the map of 4
\* blocks of 64 bytes as the run of all its 4 blocks, at the heap base
ContRunWitness ==
    /\ ret.op = "rballoc_align"
    /\ ret.ptr # NULL
    /\ \E h \in 1 .. PLATFORM_HEAP_BUFFER :
          /\ ret.ptr = memmap.buffer[h].heap
          /\ memmap.buffer[h].blocks = 1
          /\ memmap.buffer[h].map[1].count = 4
          /\ memmap.buffer[h].map[1].block_size = 64
          /\ memmap.buffer[h].map[1].free_count = 0
          /\ memmap.buffer[h].map[1].block[1].size = 4
          /\ \A k \in 1 .. 4 : memmap.buffer[h].map[1].block[k].used = 1
          /\ [ptr |-> ret.ptr, bytes |-> 200] \in live

-----------------------------------------------------------------------------
(* C17: alloc_heap_buffer() serves a request as a single block from the    *)
(* lowest-indexed map (the smallest block size) whose block_size is at     *)
(* least the request size adjusted for the alignment and which has a free  *)
(* block; when it does, every other map of the heap (headers, free_count,  *)
(* first_free) is unchanged.  Block sizes 64 and 256, counts 4 and 2: a    *)
(* request of 100 bytes aligned to 128 is placed in the map of 256-byte    *)
(* blocks and the map of 64-byte blocks is untouched.                      *)

\* the maps of heap with a free block whose blocks hold the request, made
\* larger by the alignment when the first free block is not aligned
FittingMaps(heap, bytes, alignment) ==
    {j \in 1 .. heap.blocks :
        /\ heap.map[j].free_count # 0
        /\ heap.map[j].block_size >=
              bytes + (IF (heap.map[j].base + heap.map[j].block_size *
                           heap.map[j].first_free) % alignment # 0
                       THEN alignment ELSE 0)}

Lowest(S) == CHOOSE j \in S : \A k \in S : j <= k

\* heap post is heap pre with one block of map j taken for ptr, nothing else
SingleBlockIn(pre, post, j, ptr, bytes) ==
    /\ \A i \in 1 .. pre.blocks : i # j => post.map[i] = pre.map[i]
    /\ post.map[j].free_count = pre.map[j].free_count - 1
    /\ \E k \in 0 .. pre.map[j].count - 1 :
          /\ pre.map[j].block[k + 1].used = 0
          /\ post.map[j].block[k + 1].used = 1
          /\ post.map[j].block[k + 1].size = 1
          /\ \A m \in 0 .. pre.map[j].count - 1 : m # k =>
                post.map[j].block[m + 1] = pre.map[j].block[m + 1]
          /\ pre.map[j].base + k * pre.map[j].block_size <= ptr
          /\ ptr + bytes <= pre.map[j].base + (k + 1) * pre.map[j].block_size

\* heap after k further requests of 40 bytes aligned to 8
RECURSIVE AfterSmall(_, _)
AfterSmall(heap, k) ==
    IF k = 0 THEN heap
    ELSE alloc_heap_buffer(AfterSmall(heap, k - 1), {}, 40, 8).heap

SmallestFitInv ==
    \A h \in 1 .. PLATFORM_HEAP_BUFFER, k \in 0 .. MaxFurther,
       bytes \in BufferBytes, alignment \in {8, 128, 256} :
        \A heap \in {AfterSmall(memmap.buffer[h], k)} :
        \A r \in {alloc_heap_buffer(heap, {}, bytes, alignment)} :
            FittingMaps(heap, bytes, alignment) # {} =>
                /\ r.ptr # NULL
                /\ r.ptr % alignment = 0
                /\ SingleBlockIn(heap, r.heap,
                                 Lowest(FittingMaps(heap, bytes, alignment)),
                                 r.ptr, bytes)

\* rballoc_align() has placed 100 bytes aligned to 128 in the map of two
\* 256-byte blocks of a heap whose map of four 64-byte blocks is untouched
SmallestFitWitness ==
    /\ ret.op = "rballoc_align"
    /\ ret.ptr # NULL
    /\ ret.ptr % 128 = 0
    /\ [ptr |-> ret.ptr, bytes |-> 100] \in live
    /\ \E h \in 1 .. PLATFORM_HEAP_BUFFER :
          /\ memmap.buffer[h].blocks = 2
          /\ memmap.buffer[h].map[1] =
                [BLOCK_DEF(64, 4) EXCEPT !.base = memmap.buffer[h].heap]
          /\ memmap.buffer[h].map[2].block_size = 256
          /\ memmap.buffer[h].map[2].count = 2
          /\ memmap.buffer[h].map[2].free_count = 1
          /\ RunHolds(memmap.buffer[h].map[2], 0, ret.ptr, 100)

-----------------------------------------------------------------------------
(* C18: a single-block allocation takes the lowest-indexed unused block of *)
(* the chosen map: it returns base + first_free * block_size rounded up to *)
(* the alignment, decrements free_count by exactly one and marks exactly   *)
(* that one header used with run length 1.  Fresh map of 4 blocks of 64    *)
(* bytes: two requests of 40 bytes aligned to 8 return base and base + 64  *)
(* and leave free_count = 2 and first_free = 2.                            *)

\* heap post is heap pre with the lowest unused block of one map taken as a
\* single block for ptr
LowestBlockTaken(pre, post, ptr, alignment) ==
    \E j \in 1 .. pre.blocks :
        /\ \A i \in 1 .. pre.blocks : i # j => post.map[i] = pre.map[i]
        /\ FreeBlocks(pre.map[j]) # {}
        /\ \A k \in {Lowest(FreeBlocks(pre.map[j]))} :
              /\ k = pre.map[j].first_free
              /\ ptr = AlignUp(pre.map[j].base + k * pre.map[j].block_size,
                               alignment)
              /\ post.map[j].free_count = pre.map[j].free_count - 1
              /\ post.map[j].block[k + 1] =
                    [size |-> 1, used |-> 1,
                     unaligned_ptr |->
                         pre.map[j].base + k * pre.map[j].block_size]
              /\ \A m \in 0 .. pre.map[j].count - 1 : m # k =>
                    post.map[j].block[m + 1] = pre.map[j].block[m + 1]

\* the two requests on the fresh heap of one map of 4 blocks of 64 bytes
FreshExample ==
    \A heap \in {init_heap(StaticMemmap).buffer[1]} :
    \A r1 \in {alloc_heap_buffer(heap, {}, 40, 8)} :
    \A r2 \in {alloc_heap_buffer(r1.heap, {}, 40, 8)} :
        /\ heap.blocks = 1
        /\ heap.map[1].block_size = 64 /\ heap.map[1].count = 4
        /\ r1.ptr = heap.heap
        /\ r2.ptr = heap.heap + 64
        /\ r2.heap.map[1].free_count = 2
        /\ r2.heap.map[1].first_free = 2

LowestBlockInv ==
    /\ FreshExample
    /\ \A h \in BlockHeaps(memmap), bytes \in MallocBytes \cup {100} :
          \A r \in {get_ptr_from_heap(h, {}, bytes, PLATFORM_DCACHE_ALIGN)} :
              r.ptr # NULL =>
                  LowestBlockTaken(h, r.heap, r.ptr, PLATFORM_DCACHE_ALIGN)
    /\ \A h \in 1 .. PLATFORM_HEAP_BUFFER, k \in 0 .. MaxFurther,
          bytes \in BufferBytes, alignment \in {8, 128, 256} :
          \A heap \in {AfterSmall(memmap.buffer[h], k)} :
          \A r \in {alloc_heap_buffer(heap, {}, bytes, alignment)} :
              (r.ptr # NULL /\ FittingMaps(heap, bytes, alignment) # {}) =>
                  LowestBlockTaken(heap, r.heap, r.ptr, alignment)

\* two requests of 40 bytes aligned to 8 have been served from the fresh map
\* of 4 blocks of 64 bytes: at base and at base + 64
LowestBlockWitness ==
    /\ ret.op = "rballoc_align"
    /\ \E h \in 1 .. PLATFORM_HEAP_BUFFER :
          /\ memmap.buffer[h].blocks = 1
          /\ memmap.buffer[h].map[1].count = 4
          /\ live = {[ptr |-> memmap.buffer[h].heap, bytes |-> 40],
                     [ptr |-> memmap.buffer[h].heap + 64, bytes |-> 40]}
          /\ ret.ptr = memmap.buffer[h].heap + 64
          /\ memmap.buffer[h].map[1].free_count = 2
          /\ memmap.buffer[h].map[1].first_free = 2

-----------------------------------------------------------------------------
(* C19, as the specification states it: a System-zone allocation           *)
(* (rmalloc() with zone SYS, rzalloc_core_sys()) never returns null: it    *)
(* ends in panic(), leaving info.used and info.free unchanged, exactly     *)
(* when the padding to the dcache line plus bytes exceeds info.free, and   *)
(* otherwise returns an address inside the system heap of the target core  *)
(* whose offset from the heap base is a multiple of PLATFORM_DCACHE_ALIGN. *)

\* what System-zone allocations are tried with
SysBytes == {0, 24, 40, 64, 88, 128, 200}

\* the padding that brings info.used of the system heap of core to a
\* multiple of the dcache line size
Padding(core) ==
    (PLATFORM_DCACHE_ALIGN -
     (memmap.system[core + 1].info.used % PLATFORM_DCACHE_ALIGN))
        % PLATFORM_DCACHE_ALIGN

\* r is the result of a System-zone allocation of bytes for core, made in
\* the current state
SysStrict(r, core, bytes) ==
    /\ r.panic = (Padding(core) + bytes > memmap.system[core + 1].info.free)
    /\ r.panic => Heaps(r.mm) = Heaps(memmap)
    /\ ~r.panic =>
          /\ r.ptr # NULL
          /\ InHeap(memmap.system[core + 1], r.ptr)
          /\ (r.ptr - memmap.system[core + 1].heap)
                 % PLATFORM_DCACHE_ALIGN = 0

SysAllocStrict ==
    \A caller \in Cores, bytes \in SysBytes :
        /\ \A caps \in CapsSet :
              SysStrict(rmalloc(memmap, caller, SOF_MEM_ZONE_SYS, caps, bytes),
                        caller, bytes)
        /\ \A core \in Cores :
              SysStrict(rzalloc_core_sys(memmap, caller, core, bytes),
                        core, bytes)

(* C19, as the code has it: a System-zone allocation never returns null.   *)
(* It ends in panic(), leaving info.used and info.free unchanged, when the *)
(* system heap lacks a bit of caps, or else when the padding plus bytes    *)
(* exceeds info.free.  Otherwise it returns heap + info.used + padding,    *)
(* whose offset from the heap base is a multiple of PLATFORM_DCACHE_ALIGN, *)
(* with [ptr, ptr + bytes) inside the system heap of the target core; for  *)
(* bytes = 0 on a heap that the padding fills, that address is the end of  *)
(* the heap, one past its last byte.                                       *)

SysOutcome(r, core, caps, bytes) ==
    /\ r.panic = (\/ CapsMask(memmap.system[core + 1].caps, caps) # caps
                  \/ Padding(core) + bytes
                         > memmap.system[core + 1].info.free)
    /\ r.panic => Heaps(r.mm) = Heaps(memmap)
    /\ ~r.panic =>
          /\ r.ptr # NULL
          /\ r.ptr = memmap.system[core + 1].heap +
                     memmap.system[core + 1].info.used + Padding(core)
          /\ (r.ptr - memmap.system[core + 1].heap)
                 % PLATFORM_DCACHE_ALIGN = 0
          /\ memmap.system[core + 1].heap <= r.ptr
          /\ r.ptr + bytes <= memmap.system[core + 1].heap +
                              memmap.system[core + 1].size
          /\ InHeap(memmap.system[core + 1], r.ptr) =
                ~(bytes = 0 /\ Padding(core)
                                  = memmap.system[core + 1].info.free)
          /\ r.mm.system[core + 1].info =
                [used |-> memmap.system[core + 1].info.used
                              + Padding(core) + bytes,
                 free |-> memmap.system[core + 1].info.free
                              - (Padding(core) + bytes)]

SysAllocInv ==
    \A caller \in Cores, bytes \in SysBytes :
        /\ \A caps \in CapsSet :
              SysOutcome(rmalloc(memmap, caller, SOF_MEM_ZONE_SYS, caps,
                                 bytes), caller, caps, bytes)
        /\ \A core \in Cores :
              SysOutcome(rzalloc_core_sys(memmap, caller, core, bytes),
                         core, {}, bytes)

\* a System-zone allocation of 0 bytes has returned the end of a system
\* heap that an earlier allocation and the padding fill
SysAllocWitness ==
    /\ ret.op \in {"rmalloc", "rzalloc_core_sys"}
    /\ ~panicked
    /\ \E c \in Cores :
          /\ ret.ptr = memmap.system[c + 1].heap + memmap.system[c + 1].size
          /\ memmap.system[c + 1].info.free = 0
          /\ [ptr |-> ret.ptr, bytes |-> 0] \in live
          /\ \E a \in live : a.bytes > 0 /\ InHeap(memmap.system[c + 1], a.ptr)

-----------------------------------------------------------------------------
(* C20, as the specification states it: after alloc_block() has taken a    *)
(* block, first_free is the index of the next unused header found by a     *)
(* linear scan, and first_free = count when no unused header exists up to  *)
(* count.                                                                  *)

\* the heaps alloc_block() is tried on: the block-map heaps as they are,
\* and the buffer heaps after further small requests
ProbeHeaps ==
    BlockHeaps(memmap) \cup
    {AfterSmall(memmap.buffer[h], k) :
        h \in 1 .. PLATFORM_HEAP_BUFFER, k \in 1 .. MaxFurther}

\* the unused headers of map from index from on
UnusedFrom(map, from) == {i \in FreeBlocks(map) : i >= from}

\* first_free of map post, which alloc_block() left behind when it took the
\* block at first_free of map pre; none is its value when no header is
\* unused
NextFree(pre, post, none) ==
    post.first_free =
        IF UnusedFrom(post, pre.first_free) # {}
        THEN Lowest(UnusedFrom(post, pre.first_free))
        ELSE none

-----------------------------------------------------------------------------
(* C21, as the specification states it: the slack for the alignment alone  *)
(* never makes a request span blocks: a buffer request with bytes <=       *)
(* block_size of a map that has a free block never occupies more than one  *)
(* block of that map, whatever the power-of-two alignment asked for and    *)
(* whatever the alignment of the first free block of the map.              *)

\* the number of blocks of map j that heap post holds more than heap pre
BlocksTaken(pre, post, j) == pre.map[j].free_count - post.map[j].free_count

AlignSlackStrict ==
    \A h \in 1 .. PLATFORM_HEAP_BUFFER, k \in 0 .. MaxFurther,
       bytes \in BufferBytes, alignment \in {8, 128, 256} :
        \A heap \in {AfterSmall(memmap.buffer[h], k)} :
        \A r \in {alloc_heap_buffer(heap, {}, bytes, alignment)} :
            \A j \in 1 .. heap.blocks :
                (heap.map[j].free_count # 0 /\
                 bytes <= heap.map[j].block_size) =>
                    BlocksTaken(heap, r.heap, j) <= 1

(* C21, as the code has it: a buffer request with bytes <= block_size of a *)
(* map that has a free block occupies one block of that map when the first *)
(* free block of the map is aligned or bytes + alignment <= block_size.    *)
(* Otherwise the map is passed over for a single block, and when no map of *)
(* the heap serves the request as a single block it is served as a run of  *)
(* ceil((bytes + alignment) / block_size) >= 2 blocks of a map, which may  *)
(* be this one: the slack for the alignment does make the request span     *)
(* blocks.                                                                 *)

AlignSlackInv ==
    \A h \in 1 .. PLATFORM_HEAP_BUFFER, k \in 0 .. MaxFurther,
       bytes \in BufferBytes, alignment \in {8, 128, 256} :
        \A heap \in {AfterSmall(memmap.buffer[h], k)} :
        \A r \in {alloc_heap_buffer(heap, {}, bytes, alignment)} :
            \A j \in 1 .. heap.blocks :
                (heap.map[j].free_count # 0 /\
                 bytes <= heap.map[j].block_size) =>
                    BlocksTaken(heap, r.heap, j) \in
                        IF FittingMaps(heap, bytes, alignment) # {}
                        THEN IF j = Lowest(FittingMaps(heap, bytes,
                                                       alignment))
                             THEN {1} ELSE {0}
                        ELSE {0, CeilDiv(bytes + alignment,
                                         heap.map[j].block_size)}

\* rballoc_align() has served 40 bytes aligned to 128 as a run of 3 blocks
\* of 64 bytes
AlignSlackWitness ==
    /\ ret.op = "rballoc_align"
    /\ ret.ptr # NULL
    /\ ret.ptr % 128 = 0
    /\ [ptr |-> ret.ptr, bytes |-> 40] \in live
    /\ \E map \in BlockMaps(memmap) : \E s \in 0 .. map.count - 1 :
          /\ map.block_size = 64
          /\ RunHolds(map, s, ret.ptr, 40)
          /\ map.block[s + 1].size = 3

-----------------------------------------------------------------------------
(* C22: rballoc_align() tries the buffer heaps whose caps cover the        *)
(* request in ascending index order, each at most once, and returns the    *)
(* result of the first one that can serve the request; it returns null     *)
(* only if every such heap failed to serve it, and the loop terminates.    *)

\* the 0-based indices of the buffer heaps whose caps cover caps
CapsHeaps(caps) ==
    {h \in 0 .. PLATFORM_HEAP_BUFFER - 1 :
        CapsMask(memmap.buffer[h + 1].caps, caps) = caps}

\* the buffer heaps of CapsHeaps(caps) that serve the request in the current
\* state
Serving(caps, bytes, alignment) ==
    {h \in CapsHeaps(caps) :
        alloc_heap_buffer(memmap.buffer[h + 1], caps, bytes, alignment).ptr
            # NULL}

\* the heaps of CapsHeaps(caps) the loop has to try: all of them up to the
\* first that serves
ToTry(caps, bytes, alignment) ==
    {h \in CapsHeaps(caps) :
        \A g \in Serving(caps, bytes, alignment) : h <= g}

HeapOrderInv ==
    \A core \in Cores, caps \in CapsSet \cup {{"RAM", "DMA"}},
       bytes \in BufferBytes \cup {1000}, alignment \in {8, 128, 256} :
        \A r \in {rballoc_align(memmap, core, caps, bytes, alignment)} :
        \A t \in {BallocTried(memmap, 0, caps, bytes, alignment)} :
            /\ ~r.panic
            /\ Len(t) <= PLATFORM_HEAP_BUFFER
            /\ \A i \in 1 .. Len(t) : \A k \in 1 .. Len(t) :
                  i < k => t[i] < t[k]
            /\ {t[i] : i \in 1 .. Len(t)} = ToTry(caps, bytes, alignment)
            /\ (r.ptr = NULL) = (Serving(caps, bytes, alignment) = {})
            /\ r.ptr = NULL => Heaps(r.mm) = Heaps(memmap)
            /\ r.ptr # NULL =>
                  \A h \in {Lowest(Serving(caps, bytes, alignment))} :
                      /\ r.ptr = alloc_heap_buffer(memmap.buffer[h + 1], caps,
                                                   bytes, alignment).ptr
                      /\ r.mm.buffer =
                            [memmap.buffer EXCEPT ![h + 1] =
                                alloc_heap_buffer(memmap.buffer[h + 1], caps,
                                                  bytes, alignment).heap]

\* rballoc_align() has returned a block of the second buffer heap after the
\* first buffer heap, which is full, failed with a trace error
HeapOrderWitness ==
    /\ ret.op = "rballoc_align"
    /\ ret.ptr # NULL
    /\ ret.err
    /\ InHeap(memmap.buffer[2], ret.ptr)
    /\ memmap.buffer[1].info.free = 0
    /\ Cardinality(live) = 2

-----------------------------------------------------------------------------
(* C23: rmalloc() from the RUNTIME zone is served only from the first      *)
(* runtime heap whose caps cover the request; the buffer heaps are         *)
(* consulted only when no runtime heap has the caps (then the first buffer *)
(* heap with the caps is used), never because the runtime heap selected    *)
(* has no room; when no heap of either array has the caps, the call        *)
(* returns null without panic().                                           *)

\* the memory map after k further rmalloc() of 40 bytes from the RUNTIME zone
RECURSIVE AfterRuntime(_, _)
AfterRuntime(mm, k) ==
    IF k = 0 THEN mm
    ELSE rmalloc(AfterRuntime(mm, k - 1), PLATFORM_MASTER_CORE_ID,
                 SOF_MEM_ZONE_RUNTIME, {"RAM"}, 40).mm

\* the heaps of array arr of mm whose caps cover caps, as 0-based indices
Covering(mm, arr, caps) ==
    {h \in 0 .. Len(mm[arr]) - 1 : CapsMask(mm[arr][h + 1].caps, caps) = caps}

\* the heap a RUNTIME request with caps has to be served from
RuntimeChoice(mm, caps) ==
    IF Covering(mm, "runtime", caps) # {}
    THEN HeapRef("runtime", Lowest(Covering(mm, "runtime", caps)))
    ELSE IF Covering(mm, "buffer", caps) # {}
    THEN HeapRef("buffer", Lowest(Covering(mm, "buffer", caps)))
    ELSE NoHeap

\* r is the result of a RUNTIME request made on mm, ref the heap it has to
\* be served from
RuntimeServed(mm, r, ref, bytes) ==
    /\ ~r.panic
    /\ \A arr \in {"system", "system_runtime", "runtime", "buffer"} :
          \A i \in 1 .. Len(mm[arr]) :
              (arr # ref.arr \/ i # ref.idx + 1) => r.mm[arr][i] = mm[arr][i]
    /\ IF ref = NoHeap
       THEN r.ptr = NULL /\ r.err
       ELSE /\ (r.ptr = NULL) =
                 (FittingMaps(HeapAt(mm, ref), bytes, PLATFORM_DCACHE_ALIGN)
                     = {})
            /\ r.ptr = NULL => HeapAt(r.mm, ref) = HeapAt(mm, ref)
            /\ r.ptr # NULL =>
                  /\ InHeap(HeapAt(mm, ref), r.ptr)
                  /\ HeapAt(r.mm, ref).info.used > HeapAt(mm, ref).info.used

RuntimeHeapInv ==
    \A core \in Cores, caps \in CapsSet \cup {{"RAM", "DMA"}},
       bytes \in {0, 40, 100, 200}, k \in 0 .. MaxFurther :
        \A mm \in {AfterRuntime(memmap, k)} :
        \A r \in {rmalloc(mm, core, SOF_MEM_ZONE_RUNTIME, caps, bytes)} :
            RuntimeServed(mm, r, RuntimeChoice(mm, caps), bytes)

\* rmalloc() has served a request from the second buffer heap: no runtime
\* heap and not the first buffer heap has the caps asked for
RuntimeHeapWitness ==
    /\ ret.op = "rmalloc"
    /\ ret.ptr # NULL
    /\ InHeap(memmap.buffer[2], ret.ptr)
    /\ InsideUsedBlocks(memmap, ret.ptr, 40)
    /\ \A i \in 1 .. PLATFORM_HEAP_RUNTIME : memmap.runtime[i].info.used = 0

-----------------------------------------------------------------------------
(* C24: alloc_cont_blocks() is first-fit: for a request that needs n       *)
(* blocks it allocates the lowest-indexed run of n consecutive unused      *)
(* blocks of the map, scanning from first_free, and it returns null with   *)
(* the map unchanged if and only if the map has no run of n consecutive    *)
(* unused blocks.                                                          *)

\* the first blocks of the runs of n consecutive unused blocks of map
FreeRuns(map, n) ==
    {s \in 0 .. map.count - n :
        \A k \in s .. s + n - 1 : map.block[k + 1].used = 0}

\* r is the result of alloc_cont_blocks() for n blocks of map level of heap
FirstFit(heap, level, r, n, alignment) ==
    /\ (r.ptr = NULL) = (FreeRuns(heap.map[level], n) = {})
    /\ r.ptr = NULL => r.heap = heap /\ r.err
    /\ r.ptr # NULL =>
          \A s \in {Lowest(FreeRuns(heap.map[level], n))} :
              /\ RunTaken(heap.map[level], r.heap.map[level], s, n)
              /\ r.ptr = AlignUp(heap.map[level].base +
                                 s * heap.map[level].block_size, alignment)
              /\ \A j \in 1 .. heap.blocks :
                    j # level => r.heap.map[j] = heap.map[j]

FirstFitInv ==
    \A heap \in ProbeHeaps, alignment \in {8, 128}, n \in 1 .. 5,
       part \in {0, 8} :
        \A level \in 1 .. heap.blocks :
            FirstFit(heap, level,
                     alloc_cont_blocks(heap, level,
                         n * heap.map[level].block_size - part, alignment),
                     n, alignment)

\* rballoc_align() has taken blocks 2 and 3 of a map of 4 blocks as a run:
\* block 0 is unused, block 1 is used
FirstFitWitness ==
    /\ ret.op = "rballoc_align"
    /\ ret.ptr # NULL
    /\ \E map \in BlockMaps(memmap) :
          /\ map.count = 4
          /\ map.first_free = 0
          /\ map.block[1].used = 0
          /\ map.block[2].used = 1 /\ map.block[2].size = 1
          /\ map.block[3].used = 1 /\ map.block[3].size = 2
          /\ map.block[4].used = 1
          /\ ret.ptr = map.base + 2 * map.block_size

-----------------------------------------------------------------------------
(* C25: after every operation, every unused header has unaligned_ptr =     *)
(* NULL and size = 0; every used header with size = n >= 1 starts a run    *)
(* whose following n - 1 headers are used, have size 0 and carry the same  *)
(* unaligned_ptr, the raw base address of the first block of the run;      *)
(* every used header belongs to exactly one such run.                      *)

\* block s of map starts a run: used, size n >= 1, n - 1 used headers of
\* size 0 behind it, all with the base of block s as unaligned_ptr
StartsRun(map, s) ==
    /\ map.block[s + 1].used = 1
    /\ map.block[s + 1].size >= 1
    /\ s + map.block[s + 1].size <= map.count
    /\ \A k \in s .. s + map.block[s + 1].size - 1 :
          /\ map.block[k + 1].used = 1
          /\ map.block[k + 1].unaligned_ptr = map.base + s * map.block_size
          /\ k # s => map.block[k + 1].size = 0

\* the first blocks of the runs that block k of map belongs to
RunsOf(map, k) ==
    {s \in 0 .. k : StartsRun(map, s) /\ k < s + map.block[s + 1].size}

HeaderInv ==
    \A map \in BlockMaps(memmap) : \A k \in 0 .. map.count - 1 :
        /\ map.block[k + 1].used \in {0, 1}
        /\ map.block[k + 1].used = 0 => map.block[k + 1] = FreeHdr
        /\ (map.block[k + 1].used = 1 /\ map.block[k + 1].size >= 1)
              => StartsRun(map, k)
        /\ map.block[k + 1].used = 1 => Cardinality(RunsOf(map, k)) = 1

\* a map holds a single block and a run of several blocks, and a block that
\* was a single block before is unused again
HeaderWitness ==
    /\ ret.ptr # NULL
    /\ \E map \in BlockMaps(memmap) :
          /\ map.block[1] = FreeHdr
          /\ \E s \in 1 .. map.count - 1 :
                StartsRun(map, s) /\ map.block[s + 1].size = 1
          /\ \E s \in 1 .. map.count - 1 :
                StartsRun(map, s) /\ map.block[s + 1].size > 1

-----------------------------------------------------------------------------
(* C26: after any sequence of allocations and frees, in every block map    *)
(* all blocks with index < first_free are used and, whenever free_count >  *)
(* 0, first_free < count and blocks[first_free] is unused; alloc_block(),  *)
(* which is only called when free_count > 0, never hands out a block that  *)
(* is already in use.                                                      *)

\* the headers that are used in heap pre are the same in heap post
UsedKept(pre, post) ==
    \A j \in 1 .. pre.blocks : \A k \in 1 .. pre.map[j].count :
        pre.map[j].block[k].used = 1 =>
            post.map[j].block[k] = pre.map[j].block[k]

\* ptr lies in a block that is unused in heap pre and used in heap post
FromUnused(pre, post, ptr) ==
    \E j \in 1 .. pre.blocks : \E k \in 0 .. pre.map[j].count - 1 :
        /\ pre.map[j].block[k + 1].used = 0
        /\ post.map[j].block[k + 1].used = 1
        /\ pre.map[j].base + k * pre.map[j].block_size <= ptr
        /\ ptr < pre.map[j].base + (k + 1) * pre.map[j].block_size

\* what a call that allocates from heap pre leaves: the used headers as
\* they were, and a pointer into a block that was unused
HandsOutUnused(pre, r) ==
    /\ UsedKept(pre, r.heap)
    /\ r.ptr # NULL => FromUnused(pre, r.heap, r.ptr)

UsedBlockInv ==
    /\ \A map \in BlockMaps(memmap) :
          /\ \A i \in 0 .. map.first_free - 1 : map.block[i + 1].used = 1
          /\ map.free_count > 0 => map.first_free \in FreeBlocks(map)
    /\ \A heap \in ProbeHeaps, alignment \in {8, PLATFORM_DCACHE_ALIGN} :
          \A level \in 1 .. heap.blocks :
              heap.map[level].free_count > 0 =>
                  \A r \in {alloc_block(heap, level, alignment)} :
                      /\ r.ptr # NULL
                      /\ HandsOutUnused(heap, r)
    /\ \A heap \in ProbeHeaps, bytes \in MallocBytes \cup BufferBytes :
          /\ HandsOutUnused(heap, get_ptr_from_heap(heap, {}, bytes,
                                                    PLATFORM_DCACHE_ALIGN))
          /\ \A alignment \in {8, 128} :
                HandsOutUnused(heap, alloc_heap_buffer(heap, {}, bytes,
                                                       alignment))

\* a request has been turned down although a map with blocks large enough
\* exists: every block of that map is in use, and first_free names one of
\* them
UsedBlockWitness ==
    /\ ret.op = "rmalloc"
    /\ ret.ptr = NULL
    /\ \E c \in Cores :
          /\ Cardinality(live) = 1
          /\ memmap.system_runtime[c + 1].map[1].free_count = 0
          /\ memmap.system_runtime[c + 1].map[1].first_free = 0
          /\ memmap.system_runtime[c + 1].map[1].block[1].used = 1
          /\ \A a \in live :
                a.ptr = memmap.system_runtime[c + 1].map[1].base

-----------------------------------------------------------------------------
(* C27: for every core's System arena, info.used + info.free = size and    *)
(* info.used <= size hold under any interleaving of the System allocations *)
(* that target the arena from any core (rmalloc() with zone System,        *)
(* rzalloc_core_sys()) with free_heap(System) run by the owning non-master *)
(* core, and the outcome is one that some serial order of those calls      *)
(* produces.  The arena is looked at when no call is under way on any      *)
(* core.                                                                   *)

\* info of the system heap of core after up to k System allocations, one
\* after the other, since init_heap() or the last free_heap()
RECURSIVE SerialInfos(_, _)
SerialInfos(core, k) ==
    IF k = 0
    THEN {[used |-> 0, free |-> StaticMemmap.system[core + 1].size]}
    ELSE SerialInfos(core, k - 1) \cup
         {r.mm.system[core + 1].info :
            r \in {r \in {rmalloc_sys([memmap EXCEPT
                                         !.system[core + 1].info = i],
                                      {}, core, b) :
                            i \in SerialInfos(core, k - 1),
                            b \in SysCallBytes} : ~r.panic}}

\* no call is under way
Quiescent == \A core \in Cores : pc[core] = Idle

SysArenaInv ==
    (Quiescent /\ ~panicked) =>
        \A core \in Cores :
            /\ memmap.system[core + 1].info.used
                   + memmap.system[core + 1].info.free
                 = memmap.system[core + 1].size
            /\ memmap.system[core + 1].info.used
                 <= memmap.system[core + 1].size
            /\ memmap.system[core + 1].info \in SerialInfos(core, MaxSerial)

\* the master core, under the lock, has added the bytes to info.used of the
\* system heap of the other core and is about to take them off info.free,
\* while that core, in free_heap(), has set info.used to 0 and is about to
\* set info.free
SysArenaWitness ==
    /\ pc[PLATFORM_MASTER_CORE_ID].at = "sub_free"
    /\ pc[PLATFORM_MASTER_CORE_ID].call.target = SlaveCore
    /\ pc[SlaveCore].at = "set_free"
    /\ memmap.lock = {PLATFORM_MASTER_CORE_ID}
    /\ memmap.system[SlaveCore + 1].info.used = 0

=============================================================================
